---- MODULE Spec2Model ----
(***************************************************************************)
(* Model of the pr-track extension of pi-stuff (extensions/pr-track):      *)
(* status classification (ciProgressFromChecks, ciProgressFromRecord,      *)
(* reviewFromDecision, mergeFromState, normalizePr) and the CI bar         *)
(* allocation of ciBadge in renderWidget.                                  *)
(*                                                                         *)
(* JavaScript numbers are IEEE-754 doubles.  ciBadge computes              *)
(* (count / total) * width in doubles and sorts the categories by the      *)
(* rounded fractional parts, so the arithmetic is modelled bit by bit:     *)
(* a double is a fixed-point value [int, frac] whose frac is a sequence of *)
(* FracBits binary digits, and every operation rounds to 53 significant    *)
(* bits, ties to even.                                                     *)
(***************************************************************************)
EXTENDS Integers, Sequences, FiniteSets, TLC

VARIABLES
    pc,       \* which step of the specification under check has been taken
    checks,   \* the statusCheckRollup handed to ciProgressFromChecks
    ciProgress, \* the CiProgress returned by ciProgressFromChecks / ciProgressFromRecord
    data,     \* the GhPrView handed to normalizePr
    record,   \* the PrRecord returned by normalizePr
    pr,       \* the PrRecord handed to ciProgressFromRecord and ciBadge
    width,    \* the bar width of ciBadge (const width = 7 in the source)
    apportioned, \* [passSlots, failSlots, pendingSlots] after the leftover loop
    slots,    \* [passSlots, failSlots, pendingSlots] at the end of ciBadge
    bar,      \* the glyphs ciBadge puts between "CI:[" and "]"
    \* prTrackerExtension
    trackedPrs,      \* let trackedPrs: PrRecord[]
    lastRefreshAt,   \* let lastRefreshAt
    refreshInFlight, \* let refreshInFlight
    now,             \* Date.now()
    entries,         \* ctx.sessionManager.getEntries(): the session log
    widget,          \* the records the "pr-tracker" widget shows
    refreshing,      \* the mapWithConcurrency call refreshAll awaits
    tracking,        \* the updateTrackedPr calls awaiting fetchPr
    lastOp,          \* the handler or continuation that ran last
    events,          \* number of commands and host events handled so far
    ticks,           \* number of steps of the clock so far
    \* the kernel extension
    activeBrowserId, \* let activeBrowserId
    busyOp,          \* let busyOp
    browsers,        \* the browser sessions of the Kernel account
    calls,           \* the tool and command calls awaiting the Kernel API
    created          \* the number of sessions the Kernel API has created

classifierVars == <<pc, checks, ciProgress, data, record, pr, width, apportioned, slots, bar>>

trackerVars ==
    <<trackedPrs, lastRefreshAt, refreshInFlight, now, entries, widget, refreshing,
      tracking, lastOp, events, ticks>>

kernelVars == <<activeBrowserId, busyOp, browsers, calls, created>>

\* the tracker's variables that the kernel extension has no counterpart of
trackerOnlyVars == <<trackedPrs, lastRefreshAt, refreshInFlight, widget, refreshing, tracking>>

vars == <<classifierVars, trackerVars, kernelVars>>

\* the kernel extension's variables in the specifications that do not run it
KernelIdle ==
    /\ activeBrowserId = <<>>
    /\ busyOp = <<>>
    /\ browsers = {}
    /\ calls = <<>>
    /\ created = 0

\* the tracker's variables in the specifications that do not run the tracker
TrackerIdle ==
    /\ trackedPrs = <<>>
    /\ lastRefreshAt = 0
    /\ refreshInFlight = FALSE
    /\ now = 0
    /\ entries = <<>>
    /\ widget = <<>>
    /\ refreshing = <<>>
    /\ tracking = <<>>
    /\ lastOp = "none"
    /\ events = 0
    /\ ticks = 0

----------------------------------------------------------------------------
(* Bounds *)

\* largest passed / failed / pending count of a tally
MaxCount == 10
\* largest bar width the allocation is checked for
MaxWidth == 8
\* longest statusCheckRollup handed to ciProgressFromChecks
MaxChecks == 2

----------------------------------------------------------------------------
(* IEEE-754 double arithmetic, as far as ciBadge uses it *)

\* significant bits of a double
MantissaBits == 53
\* binary digits kept after the point: enough for count/total with
\* total < 128 (at most 7 leading zeros, 53 significant bits)
FracBits == 60

Zeros(n) == [i \in 1..n |-> 0]

DoubleZero == [int |-> 0, frac |-> Zeros(FracBits)]

RECURSIVE BitLength(_)
BitLength(n) == IF n = 0 THEN 0 ELSE 1 + BitLength(n \div 2)

\* exact binary expansion of r / t (0 <= r < t), n digits, with the remainder
RECURSIVE DivDigits(_, _, _, _)
DivDigits(r, t, n, acc) ==
    IF n = 0 THEN [digits |-> acc, rem |-> r]
    ELSE LET d == IF 2 * r >= t THEN 1 ELSE 0
         IN  DivDigits(2 * r - d * t, t, n - 1, Append(acc, d))

\* the last position <= k holding digit d, 0 when there is none
RECURSIVE LastDigit(_, _, _)
LastDigit(frac, d, k) ==
    IF k = 0 THEN 0
    ELSE IF frac[k] = d THEN k
    ELSE LastDigit(frac, d, k - 1)

\* the first position >= i holding digit 1, 0 when there is none
RECURSIVE FirstOne(_, _)
FirstOne(frac, i) ==
    IF i > FracBits THEN 0
    ELSE IF frac[i] = 1 THEN i
    ELSE FirstOne(frac, i + 1)

\* x.frac + 2^-k, carried into x.int
AddUlp(x, k) ==
    LET j == LastDigit(x.frac, 0, k)
    IN  IF j = 0
        THEN [int |-> x.int + 1, frac |-> Zeros(FracBits)]
        ELSE [int  |-> x.int,
              frac |-> [i \in 1..FracBits |->
                          IF i < j THEN x.frac[i]
                          ELSE IF i = j THEN 1 ELSE 0]]

\* round the exact value x (plus a nonzero tail below the last digit when
\* sticky) to MantissaBits significant bits, ties to even
RoundDouble(x, sticky) ==
    LET lead == FirstOne(x.frac, 1)
        k    == IF x.int > 0 THEN MantissaBits - BitLength(x.int)
                ELSE lead + MantissaBits - 1
    IN  IF (x.int = 0 /\ lead = 0) \/ k >= FracBits THEN x
        ELSE LET guard == x.frac[k + 1]
                 rest  == sticky \/ FirstOne(x.frac, k + 2) # 0
                 odd   == x.frac[k] = 1
                 trunc == [int  |-> x.int,
                           frac |-> [i \in 1..FracBits |->
                                       IF i <= k THEN x.frac[i] ELSE 0]]
             IN  IF guard = 1 /\ (rest \/ odd) THEN AddUlp(trunc, k) ELSE trunc

\* the double c / t for integers 0 <= c <= t, t > 0
DoubleDiv(c, t) ==
    IF c = 0 THEN DoubleZero
    ELSE IF c = t THEN [int |-> 1, frac |-> Zeros(FracBits)]
    ELSE LET d == DivDigits(c, t, FracBits, <<>>)
         IN  RoundDouble([int |-> 0, frac |-> d.digits], d.rem # 0)

\* exact product of x (digits i..1 still to do) by the integer w; the
\* conditions on carry and acc never hold: they have both evaluated at
\* each digit instead of once at the end
RECURSIVE MulDigits(_, _, _, _, _)
MulDigits(x, w, i, carry, acc) ==
    IF i = 0 \/ carry < 0 \/ Len(acc) > FracBits
    THEN [int |-> x.int * w + carry, frac |-> acc]
    ELSE LET v == x.frac[i] * w + carry
         IN  MulDigits(x, w, i - 1, v \div 2, <<v % 2>> \o acc)

\* the double x * w for a double x and a small integer w
DoubleMul(x, w) == RoundDouble(MulDigits(x, w, FracBits, 0, <<>>), FALSE)

\* Math.floor(x)
MathFloor(x) == x.int

\* x - Math.floor(x): exact in doubles
FracPart(x) == x.frac

\* a.frac > b.frac as doubles: the sign of a difference of doubles is exact
RECURSIVE FracGreater(_, _, _)
FracGreater(a, b, i) ==
    IF i > FracBits THEN FALSE
    ELSE IF a[i] # b[i] THEN a[i] > b[i]
    ELSE FracGreater(a, b, i + 1)

----------------------------------------------------------------------------
(* Types of extensions/pr-track *)

CiStatus == {"pass", "fail", "pending", "none", "unknown"}

\* an optional field is a sequence: <<>> when absent, <<v>> when present
Absent == <<>>
Present(v) == <<v>>

CiProgressOf(total, passed, failed, pending, status) ==
    [total |-> total, passed |-> passed, failed |-> failed,
     pending |-> pending, status |-> status]

NoProgress == CiProgressOf(0, 0, 0, 0, "none")

----------------------------------------------------------------------------
(* Strings *)

\* (value || ""): an absent, null or empty string gives ""
OrEmpty(opt) == IF opt = Absent THEN "" ELSE opt[1]

\* String.prototype.toUpperCase on the strings the model draws
toUpperCase(str) ==
    CASE str = "completed" -> "COMPLETED"
      [] str = "success"   -> "SUCCESS"
      [] str = "approved"  -> "APPROVED"
      [] str = "merged"    -> "MERGED"
      [] str = "open"      -> "OPEN"
      [] OTHER             -> str

----------------------------------------------------------------------------
(* ciProgressFromChecks *)

FailureConclusions ==
    {"FAILURE", "TIMED_OUT", "CANCELLED", "ACTION_REQUIRED", "STARTUP_FAILURE", "ERROR"}

PassConclusions == {"SUCCESS", "NEUTRAL", "SKIPPED"}

\* the loop body with every unlisted conclusion counted as pending
CheckBucket_UnknownPending(check) ==
    LET status     == toUpperCase(OrEmpty(check.status))
        conclusion == toUpperCase(OrEmpty(check.conclusion))
        isCompleted == status = "COMPLETED" \/ (status = "" /\ conclusion # "")
    IN  IF ~isCompleted THEN "pending"
        ELSE IF conclusion \in FailureConclusions THEN "failed"
        ELSE IF conclusion \in PassConclusions THEN "passed"
        ELSE "pending"

\* the loop body with no increment for a completed check without conclusion
CheckBucket_DropsUnlabeled(check) ==
    LET status     == toUpperCase(OrEmpty(check.status))
        conclusion == toUpperCase(OrEmpty(check.conclusion))
        isCompleted == status = "COMPLETED" \/ (status = "" /\ conclusion # "")
    IN  IF ~isCompleted THEN "pending"
        ELSE IF conclusion \in FailureConclusions THEN "failed"
        ELSE IF conclusion = "" THEN "skipped"
        ELSE IF conclusion \in PassConclusions THEN "passed"
        ELSE "failed"

\* the body of the loop over the checks: the counter one check increments
CheckBucket(check) ==
    LET status     == toUpperCase(OrEmpty(check.status))
        conclusion == toUpperCase(OrEmpty(check.conclusion))
        isCompleted == status = "COMPLETED" \/ (status = "" /\ conclusion # "")
    IN  IF ~isCompleted THEN "pending"
        ELSE IF conclusion \in FailureConclusions THEN "failed"
        ELSE IF conclusion = "" THEN "pending"
        ELSE IF conclusion \in PassConclusions THEN "passed"
        ELSE "failed"

ZeroCounts == [passed |-> 0, failed |-> 0, pending |-> 0]

Bump(counts, bucket) ==
    IF bucket \in DOMAIN counts THEN [counts EXCEPT ![bucket] = @ + 1] ELSE counts

\* for (const check of checks) { ... }: passed, failed, pending after the loop
RECURSIVE CountChecks(_, _, _)
CountChecks(list, i, counts) ==
    IF i > Len(list) THEN counts
    ELSE CountChecks(list, i + 1, Bump(counts, CheckBucket(list[i])))

\* the loop leaving at the first failed check (break for continue)
RECURSIVE CountChecks_BreakOnFailure(_, _, _)
CountChecks_BreakOnFailure(list, i, counts) ==
    IF i > Len(list) THEN counts
    ELSE IF CheckBucket(list[i]) = "failed" THEN Bump(counts, "failed")
    ELSE CountChecks_BreakOnFailure(list, i + 1, Bump(counts, CheckBucket(list[i])))

\* ciProgressFromChecks leaving its loop at the first failed check
ciProgressFromChecks_BreakOnFailure(rollup) ==
    IF rollup = Absent \/ Len(rollup[1]) = 0 THEN NoProgress
    ELSE LET c == CountChecks_BreakOnFailure(rollup[1], 1, ZeroCounts)
         IN  CiProgressOf(c.passed + c.failed + c.pending, c.passed, c.failed, c.pending,
                 IF c.failed > 0 THEN "fail"
                 ELSE IF c.pending > 0 THEN "pending" ELSE "pass")

\* ciProgressFromChecks testing pending before failed for the status
ciProgressFromChecks_PendingFirst(rollup) ==
    IF rollup = Absent \/ Len(rollup[1]) = 0 THEN NoProgress
    ELSE LET c == CountChecks(rollup[1], 1, ZeroCounts)
         IN  CiProgressOf(c.passed + c.failed + c.pending, c.passed, c.failed, c.pending,
                 IF c.pending > 0 THEN "pending"
                 ELSE IF c.failed > 0 THEN "fail" ELSE "pass")

\* ciProgressFromChecks(checks), checks an optional array
ciProgressFromChecks(rollup) ==
    IF rollup = Absent \/ Len(rollup[1]) = 0 THEN NoProgress
    ELSE LET c == CountChecks(rollup[1], 1, ZeroCounts)
         IN  CiProgressOf(c.passed + c.failed + c.pending, c.passed, c.failed, c.pending,
                 IF c.failed > 0 THEN "fail"
                 ELSE IF c.pending > 0 THEN "pending" ELSE "pass")

----------------------------------------------------------------------------
(* ciProgressFromRecord *)

ciProgressFromRecord(rec) ==
    IF rec.ciProgress # Absent THEN rec.ciProgress[1]
    ELSE CASE rec.ci = "pass"    -> CiProgressOf(1, 1, 0, 0, "pass")
           [] rec.ci = "fail"    -> CiProgressOf(1, 0, 1, 0, "fail")
           [] rec.ci = "pending" -> CiProgressOf(1, 0, 0, 1, "pending")
           [] rec.ci = "none"    -> CiProgressOf(0, 0, 0, 0, "none")
           [] OTHER              -> CiProgressOf(0, 0, 0, 0, "unknown")

----------------------------------------------------------------------------
(* reviewFromDecision, mergeFromState, normalizePr *)

\* reviewFromDecision without the test of the merge status
reviewFromDecision_IgnoresMerge(decision, merge) ==
    LET value == toUpperCase(OrEmpty(decision))
    IN  IF value = "APPROVED" THEN "approved"
        ELSE IF value = "CHANGES_REQUESTED" THEN "changes"
        ELSE IF value = "REVIEW_REQUIRED" THEN "pending"
        ELSE "unknown"

reviewFromDecision(decision, merge) ==
    IF merge = "merged" THEN "approved"
    ELSE LET value == toUpperCase(OrEmpty(decision))
         IN  IF value = "APPROVED" THEN "approved"
             ELSE IF value = "CHANGES_REQUESTED" THEN "changes"
             ELSE IF value = "REVIEW_REQUIRED" THEN "pending"
             ELSE "unknown"

\* mergeFromState with the draft flag tested before the merged timestamp
mergeFromState_DraftFirst(view) ==
    IF view.isDraft THEN "draft"
    ELSE IF OrEmpty(view.mergedAt) # "" \/ toUpperCase(OrEmpty(view.state)) = "MERGED"
    THEN "merged"
    ELSE LET state == toUpperCase(OrEmpty(view.state))
         IN  IF state = "OPEN" THEN "open"
             ELSE IF state = "CLOSED" THEN "closed"
             ELSE "unknown"

mergeFromState(view) ==
    IF OrEmpty(view.mergedAt) # "" \/ toUpperCase(OrEmpty(view.state)) = "MERGED"
    THEN "merged"
    ELSE IF view.isDraft THEN "draft"
    ELSE LET state == toUpperCase(OrEmpty(view.state))
         IN  IF state = "OPEN" THEN "open"
             ELSE IF state = "CLOSED" THEN "closed"
             ELSE "unknown"

\* normalizePr(data); url, title, headRefName and lastCheckedAt are copied
\* or stamped and read by no status, so the record leaves them out
normalizePr(view) ==
    LET merge      == mergeFromState(view)
        fromChecks == ciProgressFromChecks(view.statusCheckRollup)
    IN  [number         |-> view.number,
         state          |-> view.state,
         isDraft        |-> view.isDraft,
         mergedAt       |-> view.mergedAt,
         reviewDecision |-> view.reviewDecision,
         ci             |-> fromChecks.status,
         ciProgress     |-> Present(fromChecks),
         review         |-> reviewFromDecision(view.reviewDecision, merge),
         merge          |-> merge]

----------------------------------------------------------------------------
(* ciBadge: the allocation of the bar's slots *)

\* const width = 7
BarWidth == 7

SlotsOf(p, f, q) == [passSlots |-> p, failSlots |-> f, pendingSlots |-> q]

NoSlots == SlotsOf(0, 0, 0)

SlotSum(s) == s.passSlots + s.failSlots + s.pendingSlots

\* (count / progress.total) * width, in doubles
Share(count, progress, w) == DoubleMul(DoubleDiv(count, progress.total), w)

\* Array.prototype.sort((a, b) => b.frac - a.frac): descending and stable
SortByFracDescending(fr) ==
    LET before(j, i) == \/ FracGreater(fr[j].frac, fr[i].frac, 1)
                        \/ (fr[j].frac = fr[i].frac /\ j < i)
        rank(i) == Cardinality({j \in DOMAIN fr : j # i /\ before(j, i)})
    IN  [n \in DOMAIN fr |-> fr[CHOOSE i \in DOMAIN fr : rank(i) = n - 1]]

AddSlot(s, key) ==
    CASE key = "pass"    -> [s EXCEPT !.passSlots = @ + 1]
      [] key = "fail"    -> [s EXCEPT !.failSlots = @ + 1]
      [] key = "pending" -> [s EXCEPT !.pendingSlots = @ + 1]

\* for (const item of fractions) { if (used >= width) break; ...; used += 1 }
RECURSIVE DistributeLeftover(_, _, _, _)
DistributeLeftover(s, sorted, i, w) ==
    IF i > Len(sorted) \/ SlotSum(s) >= w THEN s
    ELSE DistributeLeftover(AddSlot(s, sorted[i].key), sorted, i + 1, w)

\* passSlots, failSlots, pendingSlots after the leftover loop, before any
\* borrowSlot: Math.floor of the shares, then one more slot each in the
\* order of the sorted array `fractions`
Apportion(progress, w) ==
    LET sp == Share(progress.passed, progress, w)
        sf == Share(progress.failed, progress, w)
        sq == Share(progress.pending, progress, w)
        fractions == << [key |-> "pass",    frac |-> FracPart(sp)],
                        [key |-> "fail",    frac |-> FracPart(sf)],
                        [key |-> "pending", frac |-> FracPart(sq)] >>
    IN  DistributeLeftover(SlotsOf(MathFloor(sp), MathFloor(sf), MathFloor(sq)),
                           SortByFracDescending(fractions), 1, w)

\* borrowSlot that never acts for the target "fail"
borrowSlot_NoFail(target, progress, s) ==
    CASE target = "pending" /\ progress.pending > 0 /\ s.pendingSlots = 0 ->
           LET t == IF s.passSlots > 1 THEN [s EXCEPT !.passSlots = @ - 1]
                    ELSE IF s.failSlots > 1 THEN [s EXCEPT !.failSlots = @ - 1]
                    ELSE IF s.passSlots > 0 THEN [s EXCEPT !.passSlots = @ - 1]
                    ELSE IF s.failSlots > 0 THEN [s EXCEPT !.failSlots = @ - 1]
                    ELSE s
           IN  [t EXCEPT !.pendingSlots = @ + 1]
      [] target = "pass" /\ progress.passed > 0 /\ s.passSlots = 0 ->
           LET t == IF s.pendingSlots > 1 THEN [s EXCEPT !.pendingSlots = @ - 1]
                    ELSE IF s.failSlots > 1 THEN [s EXCEPT !.failSlots = @ - 1]
                    ELSE IF s.pendingSlots > 0 THEN [s EXCEPT !.pendingSlots = @ - 1]
                    ELSE IF s.failSlots > 0 THEN [s EXCEPT !.failSlots = @ - 1]
                    ELSE s
           IN  [t EXCEPT !.passSlots = @ + 1]
      [] OTHER -> s

\* borrowSlot that does not test the target's slots: it borrows for every
\* category with a nonzero count
borrowSlot_Always(target, progress, s) ==
    CASE target = "fail" /\ progress.failed > 0 ->
           LET t == IF s.pendingSlots > 1 THEN [s EXCEPT !.pendingSlots = @ - 1]
                    ELSE IF s.passSlots > 1 THEN [s EXCEPT !.passSlots = @ - 1]
                    ELSE IF s.pendingSlots > 0 THEN [s EXCEPT !.pendingSlots = @ - 1]
                    ELSE IF s.passSlots > 0 THEN [s EXCEPT !.passSlots = @ - 1]
                    ELSE s
           IN  [t EXCEPT !.failSlots = @ + 1]
      [] target = "pending" /\ progress.pending > 0 ->
           LET t == IF s.passSlots > 1 THEN [s EXCEPT !.passSlots = @ - 1]
                    ELSE IF s.failSlots > 1 THEN [s EXCEPT !.failSlots = @ - 1]
                    ELSE IF s.passSlots > 0 THEN [s EXCEPT !.passSlots = @ - 1]
                    ELSE IF s.failSlots > 0 THEN [s EXCEPT !.failSlots = @ - 1]
                    ELSE s
           IN  [t EXCEPT !.pendingSlots = @ + 1]
      [] target = "pass" /\ progress.passed > 0 ->
           LET t == IF s.pendingSlots > 1 THEN [s EXCEPT !.pendingSlots = @ - 1]
                    ELSE IF s.failSlots > 1 THEN [s EXCEPT !.failSlots = @ - 1]
                    ELSE IF s.pendingSlots > 0 THEN [s EXCEPT !.pendingSlots = @ - 1]
                    ELSE IF s.failSlots > 0 THEN [s EXCEPT !.failSlots = @ - 1]
                    ELSE s
           IN  [t EXCEPT !.passSlots = @ + 1]
      [] OTHER -> s

borrowSlot(target, progress, s) ==
    CASE target = "fail" /\ progress.failed > 0 /\ s.failSlots = 0 ->
           LET t == IF s.pendingSlots > 1 THEN [s EXCEPT !.pendingSlots = @ - 1]
                    ELSE IF s.passSlots > 1 THEN [s EXCEPT !.passSlots = @ - 1]
                    ELSE IF s.pendingSlots > 0 THEN [s EXCEPT !.pendingSlots = @ - 1]
                    ELSE IF s.passSlots > 0 THEN [s EXCEPT !.passSlots = @ - 1]
                    ELSE s
           IN  [t EXCEPT !.failSlots = @ + 1]
      [] target = "pending" /\ progress.pending > 0 /\ s.pendingSlots = 0 ->
           LET t == IF s.passSlots > 1 THEN [s EXCEPT !.passSlots = @ - 1]
                    ELSE IF s.failSlots > 1 THEN [s EXCEPT !.failSlots = @ - 1]
                    ELSE IF s.passSlots > 0 THEN [s EXCEPT !.passSlots = @ - 1]
                    ELSE IF s.failSlots > 0 THEN [s EXCEPT !.failSlots = @ - 1]
                    ELSE s
           IN  [t EXCEPT !.pendingSlots = @ + 1]
      [] target = "pass" /\ progress.passed > 0 /\ s.passSlots = 0 ->
           LET t == IF s.pendingSlots > 1 THEN [s EXCEPT !.pendingSlots = @ - 1]
                    ELSE IF s.failSlots > 1 THEN [s EXCEPT !.failSlots = @ - 1]
                    ELSE IF s.pendingSlots > 0 THEN [s EXCEPT !.pendingSlots = @ - 1]
                    ELSE IF s.failSlots > 0 THEN [s EXCEPT !.failSlots = @ - 1]
                    ELSE s
           IN  [t EXCEPT !.passSlots = @ + 1]
      [] OTHER -> s

\* borrowSlot("fail"); borrowSlot("pending"); borrowSlot("pass");
BorrowAll(progress, s) ==
    borrowSlot("pass", progress,
        borrowSlot("pending", progress,
            borrowSlot("fail", progress, s)))

\* while (passSlots + failSlots + pendingSlots > width) { ... else break; }
RECURSIVE ShrinkToWidth(_, _)
ShrinkToWidth(s, w) ==
    IF SlotSum(s) <= w THEN s
    ELSE IF s.pendingSlots > 1 THEN ShrinkToWidth([s EXCEPT !.pendingSlots = @ - 1], w)
    ELSE IF s.passSlots > 1 THEN ShrinkToWidth([s EXCEPT !.passSlots = @ - 1], w)
    ELSE IF s.failSlots > 1 THEN ShrinkToWidth([s EXCEPT !.failSlots = @ - 1], w)
    ELSE s

\* the grow loop with `<=` for `<`: it runs once too often
RECURSIVE GrowToWidth_OffByOne(_, _, _)
GrowToWidth_OffByOne(progress, s, w) ==
    IF SlotSum(s) > w THEN s
    ELSE IF progress.pending > 0
         THEN GrowToWidth_OffByOne(progress, [s EXCEPT !.pendingSlots = @ + 1], w)
    ELSE IF progress.passed > 0
         THEN GrowToWidth_OffByOne(progress, [s EXCEPT !.passSlots = @ + 1], w)
    ELSE GrowToWidth_OffByOne(progress, [s EXCEPT !.failSlots = @ + 1], w)

\* while (passSlots + failSlots + pendingSlots < width) { ... }
RECURSIVE GrowToWidth(_, _, _)
GrowToWidth(progress, s, w) ==
    IF SlotSum(s) >= w THEN s
    ELSE IF progress.pending > 0
         THEN GrowToWidth(progress, [s EXCEPT !.pendingSlots = @ + 1], w)
    ELSE IF progress.passed > 0
         THEN GrowToWidth(progress, [s EXCEPT !.passSlots = @ + 1], w)
    ELSE GrowToWidth(progress, [s EXCEPT !.failSlots = @ + 1], w)

\* the three borrowSlot calls and the two while loops
FixUp(progress, a, w) ==
    GrowToWidth(progress, ShrinkToWidth(BorrowAll(progress, a), w), w)

Repeat(glyph, n) == [i \in 1..n |-> glyph]

\* "=".repeat(passSlots) + "!".repeat(failSlots) + "~".repeat(pendingSlots)
BarGlyphs(s) ==
    Repeat("=", s.passSlots) \o Repeat("!", s.failSlots)
        \o Repeat("~", s.pendingSlots)

----------------------------------------------------------------------------
(* SpecBar: ciBadge applied to one record *)

DerivedStatus(passed, failed, pending) ==
    IF failed > 0 THEN "fail"
    ELSE IF pending > 0 THEN "pending"
    ELSE IF passed + failed + pending > 0 THEN "pass"
    ELSE "none"

\* the records renderWidget can be handed: with the ciProgress normalizePr
\* stored, or (persisted by a version without ciProgress) with ci alone
BarRecords ==
    { [ci |-> DerivedStatus(p, f, q),
       ciProgress |-> Present(CiProgressOf(p + f + q, p, f, q, DerivedStatus(p, f, q)))] :
          p \in 0..MaxCount, f \in 0..MaxCount, q \in 0..MaxCount }
    \cup { [ci |-> c, ciProgress |-> Absent] : c \in CiStatus }

\* the values of the variables a specification does not use
IdleChecks == Absent
IdleData == [number |-> 0]
IdleRecord == [number |-> 0]
IdleRecordIn == [ci |-> "none", ciProgress |-> Absent]

InitBar ==
    /\ pc = "record"
    /\ checks = IdleChecks
    /\ ciProgress = NoProgress
    /\ data = IdleData
    /\ record = IdleRecord
    /\ pr \in BarRecords
    /\ width \in 1..MaxWidth
    /\ apportioned = NoSlots
    /\ slots = NoSlots
    /\ bar = <<>>
    /\ TrackerIdle
    /\ KernelIdle

\* ciBadge without the early return for progress.total === 0
RenderCiBadge_NoEarlyReturn ==
    /\ pc = "record"
    /\ pc' = "rendered"
    /\ LET progress == ciProgressFromRecord(pr)
       IN  /\ apportioned' = Apportion(progress, width)
           /\ slots' = FixUp(progress, apportioned', width)
           /\ bar' = BarGlyphs(slots')
    /\ UNCHANGED <<checks, ciProgress, data, record, pr, width>>
    /\ UNCHANGED <<trackerVars, kernelVars>>

\* ciBadge(pr) with the bar width `width`.  On the early return for
\* progress.total === 0 no slot is assigned and the bar is the literal
\* "-------"; otherwise the slots are apportioned, fixed up and rendered.
RenderCiBadge ==
    /\ pc = "record"
    /\ pc' = "rendered"
    /\ LET progress == ciProgressFromRecord(pr)
       IN  IF progress.total = 0
           THEN /\ apportioned' = NoSlots
                /\ slots' = NoSlots
                /\ bar' = Repeat("-", BarWidth)
           ELSE /\ apportioned' = Apportion(progress, width)
                /\ slots' = FixUp(progress, apportioned', width)
                /\ bar' = BarGlyphs(slots')
    /\ UNCHANGED <<checks, ciProgress, data, record, pr, width>>
    /\ UNCHANGED <<trackerVars, kernelVars>>

NextBar == RenderCiBadge

SpecBar == InitBar /\ [][NextBar]_vars

----------------------------------------------------------------------------
(* SpecChecks: ciProgressFromChecks applied to one statusCheckRollup, and   *)
(* ciProgressFromRecord applied to one record without ciProgress            *)

\* check.status: absent, or one of these strings
StatusSamples ==
    {Absent} \cup {Present(v) : v \in {"", "COMPLETED", "completed", "IN_PROGRESS"}}

\* check.conclusion: absent or null, or one of these strings
ConclusionSamples ==
    {Absent} \cup {Present(v) : v \in
        {"", "SUCCESS", "success", "NEUTRAL", "SKIPPED", "STALE"} \cup FailureConclusions}

CheckSamples == [status : StatusSamples, conclusion : ConclusionSamples]

RECURSIVE SeqsUpTo(_, _)
SeqsUpTo(S, n) ==
    IF n = 0 THEN {<<>>}
    ELSE LET shorter == SeqsUpTo(S, n - 1)
         IN  shorter \cup {Append(q, x) : q \in {r \in shorter : Len(r) = n - 1}, x \in S}

\* statusCheckRollup: absent, or an array of at most MaxChecks checks
RollupSamples == {Absent} \cup {Present(q) : q \in SeqsUpTo(CheckSamples, MaxChecks)}

\* records as a session written before ciProgress existed holds them
LegacyRecords == {[ci |-> c, ciProgress |-> Absent] : c \in CiStatus}

InitChecks ==
    /\ \/ pc = "checks" /\ checks \in RollupSamples /\ pr = IdleRecordIn
       \/ pc = "legacy" /\ checks = IdleChecks /\ pr \in LegacyRecords
    /\ ciProgress = NoProgress
    /\ data = IdleData
    /\ record = IdleRecord
    /\ width = BarWidth
    /\ apportioned = NoSlots
    /\ slots = NoSlots
    /\ bar = <<>>
    /\ TrackerIdle
    /\ KernelIdle

\* const ciProgress = ciProgressFromChecks(data.statusCheckRollup)
ClassifyChecks ==
    /\ pc = "checks"
    /\ pc' = "classified"
    /\ ciProgress' = ciProgressFromChecks(checks)
    /\ UNCHANGED <<checks, data, record, pr, width, apportioned, slots, bar>>
    /\ UNCHANGED <<trackerVars, kernelVars>>

\* const progress = ciProgressFromRecord(pr)
ProgressFromRecord ==
    /\ pc = "legacy"
    /\ pc' = "fromRecord"
    /\ ciProgress' = ciProgressFromRecord(pr)
    /\ UNCHANGED <<checks, data, record, pr, width, apportioned, slots, bar>>
    /\ UNCHANGED <<trackerVars, kernelVars>>

NextChecks == ClassifyChecks \/ ProgressFromRecord

SpecChecks == InitChecks /\ [][NextChecks]_vars

----------------------------------------------------------------------------
(* SpecPr: normalizePr applied to one GhPrView *)

StateSamples ==
    {Absent} \cup {Present(v) : v \in {"OPEN", "open", "CLOSED", "MERGED", "merged", "LOCKED"}}

MergedAtSamples == {Absent, Present(""), Present("2024-01-01T00:00:00Z")}

DecisionSamples ==
    {Absent} \cup {Present(v) : v \in
        {"", "APPROVED", "approved", "CHANGES_REQUESTED", "REVIEW_REQUIRED", "COMMENTED"}}

ViewRollupSamples ==
    { Absent, Present(<<>>),
      Present(<<[status |-> Present("COMPLETED"), conclusion |-> Present("SUCCESS")]>>),
      Present(<<[status |-> Present("COMPLETED"), conclusion |-> Present("FAILURE")]>>),
      Present(<<[status |-> Present("IN_PROGRESS"), conclusion |-> Absent]>>) }

GhPrViews ==
    [number : {42}, state : StateSamples, isDraft : BOOLEAN, mergedAt : MergedAtSamples,
     reviewDecision : DecisionSamples, statusCheckRollup : ViewRollupSamples]

InitPr ==
    /\ pc = "fetched"
    /\ data \in GhPrViews
    /\ record = IdleRecord
    /\ checks = IdleChecks
    /\ ciProgress = NoProgress
    /\ pr = IdleRecordIn
    /\ width = BarWidth
    /\ apportioned = NoSlots
    /\ slots = NoSlots
    /\ bar = <<>>
    /\ TrackerIdle
    /\ KernelIdle

\* return normalizePr(parsed)
NormalizePr ==
    /\ pc = "fetched"
    /\ pc' = "normalized"
    /\ record' = normalizePr(data)
    /\ UNCHANGED <<checks, ciProgress, data, pr, width, apportioned, slots, bar>>
    /\ UNCHANGED <<trackerVars, kernelVars>>

NextPr == NormalizePr

SpecPr == InitPr /\ [][NextPr]_vars

----------------------------------------------------------------------------
(* prTrackerExtension: the tracked list, its persistence and its refresh *)

STATE_ENTRY == "pr-tracker-state"
REFRESH_COOLDOWN_MS == 30000
MAX_TRACKED_PRS == 12
REFRESH_CONCURRENCY == 4

Min(a, b) == IF a < b THEN a ELSE b

\* prs.slice(0, n)
Slice(prs, n) == SubSeq(prs, 1, Min(n, Len(prs)))

\* prs.filter((p) => p.number !== num)
WithoutNumber(prs, num) == SelectSeq(prs, LAMBDA p : p.number # num)

\* the PR numbers of a list, as a set
Numbers(prs) == {prs[i].number : i \in 1..Len(prs)}

\* upsertPr without the slice to MAX_TRACKED_PRS
upsertPr_NoSlice(prs, next) == <<next>> \o WithoutNumber(prs, next.number)

\* upsertPr that appends the new record instead of putting it first
upsertPr_Appends(prs, next) ==
    LET grown == Append(WithoutNumber(prs, next.number), next)
    IN  SubSeq(grown, Len(grown) - Min(MAX_TRACKED_PRS, Len(grown)) + 1, Len(grown))

\* upsertPr that keeps the records of the same number
upsertPr_KeepsOld(prs, next) == Slice(<<next>> \o prs, MAX_TRACKED_PRS)

upsertPr(prs, next) == Slice(<<next>> \o WithoutNumber(prs, next.number), MAX_TRACKED_PRS)

\* the entry pi.appendEntry(STATE_ENTRY, { prs }) appends to the session log
StateEntry(prs) == [type |-> "custom", customType |-> STATE_ENTRY, data |-> [prs |-> prs]]

\* an entry of the session log that is not the tracker's
MessageEntry == [type |-> "message"]

persistState(log, prs) == Append(log, StateEntry(prs))

\* for (let i = entries.length - 1; i >= 0; i--): the prs of the last
\* pr-tracker-state entry, [] when there is none
RECURSIVE restoreStateFrom(_, _)
restoreStateFrom(log, i) ==
    IF i = 0 THEN <<>>
    ELSE IF log[i].type = "custom" /\ log[i].customType = STATE_ENTRY
         THEN log[i].data.prs
         ELSE restoreStateFrom(log, i - 1)

\* restoreState that returns the oldest pr-tracker-state entry
restoreState_Oldest(log) ==
    LET states == SelectSeq(log, LAMBDA e : e.type = "custom" /\ e.customType = STATE_ENTRY)
    IN  IF states = <<>> THEN <<>> ELSE states[1].data.prs

restoreState(log) == restoreStateFrom(log, Len(log))

\* the lines of the widget: one per record of prs.slice(0, MAX_TRACKED_PRS),
\* and no widget for an empty list
renderWidget(prs) == Slice(prs, MAX_TRACKED_PRS)

----------------------------------------------------------------------------
(* The gh CLI and the strings the tracker exchanges with it *)

\* most commands and host events of a behaviour
MaxEvents == 2
\* most steps of the clock in a behaviour
MaxTicks == 2

Digits == <<"0", "1", "2", "3", "4", "5", "6", "7", "8", "9">>

\* String(num) for a non-negative integer
RECURSIVE String(_)
String(num) ==
    IF num < 10 THEN Digits[num + 1]
    ELSE String(num \div 10) \o Digits[(num % 10) + 1]

\* the pull requests of the repository gh talks to
RemoteNumbers == 1..14

\* the pull request of the current branch, which gh pr view shows without a ref
BranchPr == 2

PrUrl(num) == "https://github.com/acme/repo/pull/" \o String(num)

\* Number(value) on the command arguments the model draws; NaN is Absent
Number(value) ==
    IF value = "" THEN Present(0)
    ELSE IF \E n \in 0..30 : String(n) = value
         THEN Present(CHOOSE n \in 0..30 : String(n) = value)
         ELSE Absent

\* the pull request gh pr view <ref> shows
GhLookup(ref) ==
    IF ref = "" THEN BranchPr
    ELSE CHOOSE n \in RemoteNumbers : ref = String(n) \/ ref = PrUrl(n)

\* gh pr view --json of pull request num now: open, one check, passed
GhView(num) ==
    [number |-> num, state |-> Present("OPEN"), isDraft |-> FALSE, mergedAt |-> Absent,
     reviewDecision |-> Present("REVIEW_REQUIRED"),
     statusCheckRollup |->
         Present(<<[status |-> Present("COMPLETED"), conclusion |-> Present("SUCCESS")]>>)]

\* the same pull request when an earlier session fetched it: its check running
EarlierView(num) ==
    [GhView(num) EXCEPT !.statusCheckRollup =
        Present(<<[status |-> Present("IN_PROGRESS"), conclusion |-> Absent]>>)]

\* the pull requests for which gh can fail (exit non-zero or print nothing)
FlakyNumbers == {BranchPr}

\* fetchPr(pi, ref) when gh exits with 0 and prints the view
fetchPr(ref) == normalizePr(GhView(GhLookup(ref)))

\* the outcomes of one fetchPr: the record, or the Error thrown when gh exits
\* non-zero or prints nothing
FetchOutcomes(ref) ==
    {[ok |-> TRUE, pr |-> fetchPr(ref)]}
    \cup (IF GhLookup(ref) \in FlakyNumbers
          THEN {[ok |-> FALSE, message |-> "gh pr view failed (1)"]}
          ELSE {})

\* { ...pr, lastCheckedAt, error }: the record refreshAll keeps when the fetch throws
WithError(rec, message) == ("error" :> message) @@ rec

----------------------------------------------------------------------------
(* mapWithConcurrency and refreshAll *)

\* mapWithConcurrency that starts one runner per item
mapWithConcurrency_OneRunnerPerItem(items, concurrency, quiet) ==
    [items    |-> items,
     results  |-> [i \in 1..Len(items) |-> Absent],
     cursor   |-> Len(items) + 1,
     inFlight |-> 1..Len(items),
     quiet    |-> quiet]

\* mapWithConcurrency(items, concurrency, worker) up to the first await of
\* every runner: Math.min(concurrency, items.length) runners have each taken
\* the index at the cursor and wait for their fetch.  Indexes count from 1
\* here, so cursor is the next index a runner will take.
mapWithConcurrency(items, concurrency, quiet) ==
    LET runners == Min(concurrency, Len(items))
    IN  [items    |-> items,
         results  |-> [i \in 1..Len(items) |-> Absent],
         cursor   |-> runners + 1,
         inFlight |-> 1..runners,
         quiet    |-> quiet]

\* the early returns of refreshAll without the cooldown
RefreshStarts_NoCooldown(quiet, prs) ==
    /\ ~refreshInFlight
    /\ Len(prs) # 0

\* refreshAll gets past its three early returns
RefreshStarts(quiet, prs) ==
    /\ ~refreshInFlight
    /\ Len(prs) # 0
    /\ ~(quiet /\ now - lastRefreshAt < REFRESH_COOLDOWN_MS)

\* refreshAll(ctx, quiet) up to its await, called when the tracked list is prs
refreshAll(quiet, prs) ==
    IF RefreshStarts(quiet, prs)
    THEN /\ refreshInFlight' = TRUE
         /\ refreshing' = Present(mapWithConcurrency(prs, REFRESH_CONCURRENCY, quiet))
    ELSE UNCHANGED <<refreshInFlight, refreshing>>

\* what the worker of refreshAll returns for item pr on the fetch outcome
RefreshedRecord(rec, outcome) ==
    IF outcome.ok THEN outcome.pr ELSE WithError(rec, outcome.message)

\* a handler or continuation named op has run
Ran(op) == lastOp' = op

\* a command or host event is handled
Handled(op) ==
    /\ events < MaxEvents
    /\ events' = events + 1
    /\ Ran(op)

----------------------------------------------------------------------------
(* SpecTracker: the commands and event handlers of prTrackerExtension.      *)
(* A handler runs up to its first await in one step; the continuation after *)
(* a fetch runs in one step when gh returns.  /pr-open and /pr-list read    *)
(* the tracked list and change nothing of the tracker, and are left out.    *)

\* the list an earlier session tracked and persisted: pull requests 1..n
StoredPrs(n) == [i \in 1..n |-> normalizePr(EarlierView(i))]

\* the session logs the host can hand to the tracker
StoredLogs ==
    { <<>>,
      <<StateEntry(StoredPrs(2)), MessageEntry>>,
      <<StateEntry(StoredPrs(REFRESH_CONCURRENCY + 1))>> }

\* the arguments of /pr-track and /pr-untrack the model draws
TrackArgs == {"", "13", "abc"}
UntrackArgs == {"", "all", "2", "abc"}

\* the bash commands and outputs of the tool results the model draws
CommandSamples == {"gh pr create --fill", "gh pr merge 2", "ls"}
OutputSamples == {"", "Created " \o PrUrl(14)}

\* /\bgh\s+pr\s+create\b/.test(command)
IsGhPrCreate(command) == command = "gh pr create --fill"

\* /\bgh\s+pr\s+(merge|close|reopen|ready|review)\b/.test(command)
IsGhPrChange(command) == command = "gh pr merge 2"

\* extractPrRefsFromText(output): the pull request URLs of the output
extractPrRefsFromText(output) ==
    IF output = "Created " \o PrUrl(14) THEN <<PrUrl(14)>> ELSE <<>>

\* Date.now() when the extension is loaded
StartTime == 2 * REFRESH_COOLDOWN_MS

InitTracker ==
    /\ pc = "tracker"
    /\ checks = IdleChecks
    /\ ciProgress = NoProgress
    /\ data = IdleData
    /\ record = IdleRecord
    /\ pr = IdleRecordIn
    /\ width = BarWidth
    /\ apportioned = NoSlots
    /\ slots = NoSlots
    /\ bar = <<>>
    /\ trackedPrs = <<>>
    /\ lastRefreshAt = 0
    /\ refreshInFlight = FALSE
    /\ now = StartTime
    /\ entries \in StoredLogs
    /\ widget = <<>>
    /\ refreshing = Absent
    /\ tracking = <<>>
    /\ lastOp = "load"
    /\ events = 0
    /\ ticks = 0
    /\ KernelIdle

\* the step of the clock: half the cooldown, so that two steps end it exactly
TickMs == REFRESH_COOLDOWN_MS \div 2

\* time passes
Tick ==
    /\ ticks < MaxTicks
    /\ ticks' = ticks + 1
    /\ now' = now + TickMs
    /\ Ran("tick")
    /\ UNCHANGED <<trackedPrs, lastRefreshAt, refreshInFlight, entries, widget, refreshing,
                   tracking, events>>
    /\ UNCHANGED <<classifierVars, kernelVars>>

\* updateTrackedPr(ctx, ref, false) up to its await of fetchPr
updateTrackedPr(ref) == tracking' = Append(tracking, [ref |-> ref])

\* restoreAndRender(ctx) when the session log is log
restoreAndRender(log) ==
    /\ entries' = log
    /\ trackedPrs' = restoreState(log)
    /\ widget' = renderWidget(trackedPrs')
    /\ refreshAll(TRUE, trackedPrs')
    /\ UNCHANGED <<lastRefreshAt, now, tracking, ticks>>
    /\ UNCHANGED <<classifierVars, kernelVars>>

\* the prefixes of a session log
Prefixes(log) == {SubSeq(log, 1, k) : k \in 0..Len(log)}

\* pi.on("session_start"): the log is the one the session was loaded with
SessionStart ==
    /\ Handled("session_start")
    /\ restoreAndRender(entries)

\* pi.on("session_switch"): the host hands the log of another session
SessionSwitch ==
    /\ Handled("session_switch")
    /\ \E log \in StoredLogs : restoreAndRender(log)

\* pi.on("session_fork"): the new session holds the log up to the fork point
SessionFork ==
    /\ Handled("session_fork")
    /\ \E log \in Prefixes(entries) : restoreAndRender(log)

\* pi.on("session_tree"): the session moves to an earlier point of its log
SessionTree ==
    /\ Handled("session_tree")
    /\ \E log \in Prefixes(entries) : restoreAndRender(log)

\* pi.on("turn_end")
TurnEnd ==
    /\ Handled("turn_end")
    /\ refreshAll(TRUE, trackedPrs)
    /\ UNCHANGED <<trackedPrs, lastRefreshAt, now, entries, widget, tracking, ticks>>
    /\ UNCHANGED <<classifierVars, kernelVars>>

\* pi.on("tool_result") for the result of a bash tool call that is no error
ToolResult ==
    /\ Handled("tool_result")
    /\ \E command \in CommandSamples, output \in OutputSamples :
          IF IsGhPrCreate(command)
          THEN /\ IF Len(extractPrRefsFromText(output)) = 0
                  THEN UNCHANGED tracking
                  ELSE updateTrackedPr(extractPrRefsFromText(output)[1])
               /\ UNCHANGED <<refreshInFlight, refreshing>>
          ELSE IF IsGhPrChange(command) /\ Len(trackedPrs) > 0
          THEN /\ refreshAll(TRUE, trackedPrs)
               /\ UNCHANGED tracking
          ELSE UNCHANGED <<refreshInFlight, refreshing, tracking>>
    /\ UNCHANGED <<trackedPrs, lastRefreshAt, now, entries, widget, ticks>>
    /\ UNCHANGED <<classifierVars, kernelVars>>

\* /pr-refresh
PrRefresh ==
    /\ Handled("pr-refresh")
    /\ refreshAll(FALSE, trackedPrs)
    /\ UNCHANGED <<trackedPrs, lastRefreshAt, now, entries, widget, tracking, ticks>>
    /\ UNCHANGED <<classifierVars, kernelVars>>

\* /pr-track <number?>
PrTrack ==
    /\ Handled("pr-track")
    /\ \E value \in TrackArgs :
          IF value = "" THEN updateTrackedPr("")
          ELSE LET num == Number(value)
               IN  IF num = Absent \/ num[1] <= 0
                   THEN UNCHANGED tracking
                   ELSE updateTrackedPr(String(num[1]))
    /\ UNCHANGED <<trackedPrs, lastRefreshAt, refreshInFlight, now, entries, widget,
                   refreshing, ticks>>
    /\ UNCHANGED <<classifierVars, kernelVars>>

\* the sequence q without its i-th element
RemoveAt(q, i) == SubSeq(q, 1, i - 1) \o SubSeq(q, i + 1, Len(q))

\* updateTrackedPr after its await: gh has answered the fetch of a pending
\* track.  On success the record is upserted, the list persisted and the
\* widget redrawn; on failure the user is notified and nothing changes.
TrackFetched ==
    \E i \in 1..Len(tracking) : \E outcome \in FetchOutcomes(tracking[i].ref) :
        /\ tracking' = RemoveAt(tracking, i)
        /\ IF outcome.ok
           THEN /\ trackedPrs' = upsertPr(trackedPrs, outcome.pr)
                /\ entries' = persistState(entries, trackedPrs')
                /\ widget' = renderWidget(trackedPrs')
                /\ Ran("tracked")
           ELSE /\ Ran("track-failed")
                /\ UNCHANGED <<trackedPrs, entries, widget>>
        /\ UNCHANGED <<lastRefreshAt, refreshInFlight, now, refreshing, events, ticks>>
        /\ UNCHANGED <<classifierVars, kernelVars>>

\* a runner of mapWithConcurrency after its await: gh has answered the fetch
\* of item i.  The runner stores the worker's result and takes the index at
\* the cursor, or breaks when the items are used up.  When the last runner
\* breaks, refreshAll continues in the same step: the results become the
\* tracked list, which is stamped, persisted and redrawn.
RefreshFetched ==
    /\ refreshing # Absent
    /\ LET run == refreshing[1]
       IN  \E i \in run.inFlight :
           \E outcome \in FetchOutcomes(String(run.items[i].number)) :
             LET results  == [run.results EXCEPT
                                ![i] = Present(RefreshedRecord(run.items[i], outcome))]
                 index    == run.cursor
                 inFlight == (run.inFlight \ {i})
                               \cup (IF index <= Len(run.items) THEN {index} ELSE {})
             IN  IF inFlight # {}
                 THEN /\ refreshing' = Present([run EXCEPT !.results = results,
                                                           !.cursor = index + 1,
                                                           !.inFlight = inFlight])
                      /\ Ran("fetched")
                      /\ UNCHANGED <<trackedPrs, lastRefreshAt, refreshInFlight,
                                     entries, widget>>
                 ELSE /\ trackedPrs' = [k \in 1..Len(results) |-> results[k][1]]
                      /\ lastRefreshAt' = now
                      /\ entries' = persistState(entries, trackedPrs')
                      /\ widget' = renderWidget(trackedPrs')
                      /\ refreshInFlight' = FALSE
                      /\ refreshing' = Absent
                      /\ Ran("refreshed")
    /\ UNCHANGED <<now, tracking, events, ticks>>
    /\ UNCHANGED <<classifierVars, kernelVars>>

\* /pr-untrack <number|all>
PrUntrack ==
    /\ Handled("pr-untrack")
    /\ \E value \in UntrackArgs :
          IF value = "" THEN UNCHANGED <<trackedPrs, entries, widget>>
          ELSE IF value = "all"
          THEN /\ trackedPrs' = <<>>
               /\ entries' = persistState(entries, trackedPrs')
               /\ widget' = renderWidget(trackedPrs')
          ELSE LET num == Number(value)
               IN  IF num = Absent
                   THEN UNCHANGED <<trackedPrs, entries, widget>>
                   ELSE IF Len(WithoutNumber(trackedPrs, num[1])) = Len(trackedPrs)
                   THEN UNCHANGED <<trackedPrs, entries, widget>>
                   ELSE /\ trackedPrs' = WithoutNumber(trackedPrs, num[1])
                        /\ entries' = persistState(entries, trackedPrs')
                        /\ widget' = renderWidget(trackedPrs')
    /\ UNCHANGED <<lastRefreshAt, refreshInFlight, now, refreshing, tracking, ticks>>
    /\ UNCHANGED <<classifierVars, kernelVars>>

NextTracker ==
    \/ SessionStart
    \/ SessionSwitch
    \/ SessionFork
    \/ SessionTree
    \/ TurnEnd
    \/ ToolResult
    \/ PrRefresh
    \/ PrTrack
    \/ PrUntrack
    \/ TrackFetched
    \/ RefreshFetched
    \/ Tick

SpecTracker == InitTracker /\ [][NextTracker]_vars

----------------------------------------------------------------------------
(* SpecCapacity: the tracker with a full, or nearly full, tracked list.     *)
(* The behaviours start where a session that tracks MAX_TRACKED_PRS - 1 or  *)
(* MAX_TRACKED_PRS pull requests has just refreshed them, or is waiting for *)
(* the last fetch of their refresh; during the cooldown that follows, no    *)
(* /pr-refresh is issued.                                                   *)

\* the lists of a session at or next to the capacity
FullLists == {StoredPrs(MAX_TRACKED_PRS - 1), StoredPrs(MAX_TRACKED_PRS)}

\* mapWithConcurrency(prs, ...) when every fetch but the last has returned
\* and every runner but one has left its loop
LastFetchOutstanding(prs) ==
    [items    |-> prs,
     results  |-> [i \in 1..Len(prs) |->
                     IF i < Len(prs) THEN Present(fetchPr(String(prs[i].number))) ELSE Absent],
     cursor   |-> Len(prs) + REFRESH_CONCURRENCY,
     inFlight |-> {Len(prs)},
     quiet    |-> TRUE]

InitCapacity ==
    /\ pc = "tracker"
    /\ checks = IdleChecks
    /\ ciProgress = NoProgress
    /\ data = IdleData
    /\ record = IdleRecord
    /\ pr = IdleRecordIn
    /\ width = BarWidth
    /\ apportioned = NoSlots
    /\ slots = NoSlots
    /\ bar = <<>>
    /\ trackedPrs \in FullLists
    /\ now = StartTime
    /\ entries = <<StateEntry(trackedPrs)>>
    /\ widget = renderWidget(trackedPrs)
    /\ \/ /\ lastRefreshAt = now
          /\ refreshInFlight = FALSE
          /\ refreshing = Absent
       \/ /\ lastRefreshAt = 0
          /\ refreshInFlight = TRUE
          /\ refreshing = Present(LastFetchOutstanding(trackedPrs))
    /\ tracking = <<>>
    /\ lastOp = "load"
    /\ events = 0
    /\ ticks = 0
    /\ KernelIdle

NextCapacity ==
    \/ SessionStart
    \/ SessionSwitch
    \/ SessionFork
    \/ SessionTree
    \/ TurnEnd
    \/ ToolResult
    \/ PrTrack
    \/ PrUntrack
    \/ TrackFetched
    \/ RefreshFetched

SpecCapacity == InitCapacity /\ [][NextCapacity]_vars

----------------------------------------------------------------------------
(* The kernel extension (extensions/kernel): the active browser, the busy   *)
(* marker and the Kernel API                                                *)

\* input.trim().toLowerCase() on the durations the model draws
TrimLower(input) ==
    CASE input = " 1D " -> "1d"
      [] input = "  "   -> ""
      [] OTHER          -> input

\* raw.match(/^(\d+)(s|m|h|d)$/): the digits and the unit, Absent for no match
DurationMatch(raw) ==
    CASE raw = "30m" -> Present(<<"30", "m">>)
      [] raw = "2h"  -> Present(<<"2", "h">>)
      [] raw = "1d"  -> Present(<<"1", "d">>)
      [] raw = "0m"  -> Present(<<"0", "m">>)
      [] raw = "24h" -> Present(<<"24", "h">>)
      [] OTHER       -> Absent

\* parseDurationToMs that reads every unit as seconds
parseDurationToMs_UnitIgnored(input) ==
    IF input = Absent \/ TrimLower(input[1]) = "" THEN Present(24 * 60 * 60 * 1000)
    ELSE LET m == DurationMatch(TrimLower(input[1]))
         IN  IF m = Absent THEN Absent
             ELSE LET value == Number(m[1][1])
                  IN  IF value = Absent \/ value[1] <= 0 THEN Absent
                      ELSE Present(value[1] * 1000)

\* parseDurationToMs(input): milliseconds, Absent for null
parseDurationToMs(input) ==
    IF input = Absent \/ TrimLower(input[1]) = "" THEN Present(24 * 60 * 60 * 1000)
    ELSE LET m == DurationMatch(TrimLower(input[1]))
         IN  IF m = Absent THEN Absent
             ELSE LET value == Number(m[1][1])
                      unit  == m[1][2]
                  IN  IF value = Absent \/ value[1] <= 0 THEN Absent
                      ELSE CASE unit = "s" -> Present(value[1] * 1000)
                             [] unit = "m" -> Present(value[1] * 60 * 1000)
                             [] unit = "h" -> Present(value[1] * 60 * 60 * 1000)
                             [] unit = "d" -> Present(value[1] * 24 * 60 * 60 * 1000)
                             [] OTHER      -> Absent

\* an ISO timestamp string, and new Date(string).getTime(); a string that is
\* no date gives NaN, which is Absent
IsoString(ms) == <<"iso", ms>>
GetTime(str) == IF Len(str) = 2 /\ str[1] = "iso" THEN Present(str[2]) ELSE Absent

\* Date.now() when the extension is loaded: two days after the epoch of the model
KernelStartTime == 2 * 24 * 60 * 60 * 1000

\* a browser session as the Kernel API returns it
Browser(id, createdAt) == [session_id |-> id, created_at |-> createdAt]

\* the sessions of the account when the extension is loaded: one exactly a
\* day old, one a step of the clock short of thirty minutes, one whose
\* created_at is missing and one whose created_at is no date
InitialBrowsers ==
    { Browser("old", Present(IsoString(KernelStartTime - 24 * 60 * 60 * 1000))),
      Browser("mid", Present(IsoString(KernelStartTime - 30 * 60 * 1000 + TickMs))),
      Browser("bare", Absent),
      Browser("odd", Present(<<"not a date">>)) }

\* the ids the Kernel API gives to the sessions it creates, in order
NewIds == <<"new-1", "new-2", "new-3", "new-4">>

\* the order in which client.browsers.list() yields the sessions
ListOrder == <<"old", "mid", "bare", "odd">> \o NewIds

\* for await (const b of client.browsers.list()) all.push(b)
ListBrowsers(remote) ==
    LET present == SelectSeq(ListOrder, LAMBDA id : \E b \in remote : b.session_id = id)
    IN  [i \in 1..Len(present) |-> CHOOSE b \in remote : b.session_id = present[i]]

\* the options of a call that is no prune
NoPrune == <<>>

\* the options of a prune once its parameters are read: the threshold, the
\* flags, the limit and the Date.now() taken before the list is awaited
PruneOptions(older_than, olderThanMs, dryRun, excludeActive, limit, at) ==
    <<[older_than |-> older_than, olderThanMs |-> olderThanMs, dryRun |-> dryRun,
       excludeActive |-> excludeActive, limit |-> limit, at |-> at]>>

\* a call of a tool ("tool") or of /kernel ("command") that awaits the API:
\* its operation, the session it addresses (sid, "" for none), the session
\* the caller named (session_id, Absent for none), and what it awaits (phase)
CallOf(by, op, sid, session_id, phase, prune, queue) ==
    [by |-> by, op |-> op, sid |-> sid, session_id |-> session_id, phase |-> phase,
     prune |-> prune, queue |-> queue]

\* the call sends a request to the Kernel API and awaits the answer; api
\* names the method, which the operation and the phase of the call fix
Await(api, sid, call) == calls' = Append(calls, call)

\* markBusy(op), markOk(), markError(); the timestamps they record are read
\* by the status line only
markBusy(op) == busyOp' = Present(op)
markOk == busyOp' = Absent
markError == busyOp' = Absent

\* the session a call addresses if the active session came first
SidOrActive_ActiveFirst(session_id) ==
    IF activeBrowserId # Absent THEN activeBrowserId[1]
    ELSE IF session_id # Absent THEN session_id[1]
    ELSE ""

\* params.session_id ?? activeBrowserId; undefined is ""
SidOrActive(session_id) ==
    IF session_id # Absent THEN session_id[1]
    ELSE IF activeBrowserId # Absent THEN activeBrowserId[1]
    ELSE ""

\* Math.max(1, Math.min(200, Math.floor(params.limit ?? 20)))
PruneLimit(limit) ==
    LET value == IF limit = Absent THEN 20 ELSE limit[1]
    IN  IF value < 1 THEN 1 ELSE IF value > 200 THEN 200 ELSE value

\* the parameters the model draws for the tools
SessionIdSamples == {Absent, Present("mid"), Present("new-1")}
PruneParams(older_than, dry_run, exclude_active, limit) ==
    [older_than |-> older_than, dry_run |-> dry_run, exclude_active |-> exclude_active,
     limit |-> limit]
PruneSamples ==
    { PruneParams(Absent, Absent, Absent, Absent),
      PruneParams(Absent, Present(FALSE), Absent, Absent),
      PruneParams(Present("30m"), Present(FALSE), Absent, Absent),
      PruneParams(Present("30m"), Present(FALSE), Present(FALSE), Present(1)),
      PruneParams(Present(" 1D "), Present(FALSE), Present(FALSE), Absent),
      PruneParams(Present("abc"), Present(FALSE), Absent, Absent),
      PruneParams(Present("0m"), Present(FALSE), Absent, Absent) }

\* an event of the kernel extension is handled; of the steps of the kernel
\* extension lastOp tells a prune that was rejected ("prune-rejected") and
\* the report of a dry run ("prune-dry-run") from every other step ("kernel")
KernelHandled ==
    /\ events < MaxEvents
    /\ events' = events + 1

\* what the handlers of the kernel extension leave alone
KernelFrame ==
    /\ UNCHANGED <<now, entries, ticks, created>>
    /\ UNCHANGED <<classifierVars, trackerOnlyVars>>

\* a tool call that addresses one session: the early return without a
\* session, else markBusy and the request
SessionTool(tool, api, busy, session_id) ==
    LET sid == SidOrActive(session_id)
    IN  /\ KernelHandled
        /\ Ran("kernel")
        /\ IF sid = ""
           THEN /\ markOk
                /\ UNCHANGED calls
           ELSE /\ markBusy(busy)
                /\ Await(api, sid, CallOf("tool", tool, sid, session_id, "api",
                                          NoPrune, <<>>))
        /\ UNCHANGED <<activeBrowserId, browsers>>
        /\ KernelFrame

\* kernel_playwright.execute
KernelPlaywright ==
    \E session_id \in SessionIdSamples :
        SessionTool("kernel_playwright", "playwright.execute", "playwright", session_id)

\* kernel_screenshot.execute
KernelScreenshot ==
    \E session_id \in SessionIdSamples :
        SessionTool("kernel_screenshot", "computer.captureScreenshot", "screenshot", session_id)

\* kernel_computer.execute, action click with x and y
KernelComputer ==
    \E session_id \in SessionIdSamples :
        SessionTool("kernel_computer", "computer.clickMouse", "computer:click", session_id)

\* get and delete, by the tool or by /kernel: the early return without a
\* session, else markBusy and the request
GetOrDelete(by, op, sid, session_id) ==
    IF sid = ""
    THEN /\ (IF by = "tool" THEN markOk ELSE UNCHANGED busyOp)
         /\ UNCHANGED calls
         /\ Ran("kernel")
    ELSE /\ markBusy("browser:" \o op)
         /\ Ran("kernel")
         /\ Await(IF op = "get" THEN "retrieve" ELSE "deleteByID", sid,
                  CallOf(by, op, sid, session_id, "api", NoPrune, <<>>))

\* prune, by the tool or by /kernel, once its parameters are read: the
\* error for an invalid duration, else markBusy, Date.now() and the list
Prune(by, older_than, dryRun, excludeActive, limit) ==
    LET olderThanMs == parseDurationToMs(older_than)
    IN  IF olderThanMs = Absent
        THEN /\ (IF by = "tool" THEN markOk ELSE UNCHANGED busyOp)
             /\ UNCHANGED calls
             /\ Ran("prune-rejected")
        ELSE /\ markBusy("browser:prune")
             /\ Ran("kernel")
             /\ Await("list", "",
                      CallOf(by, "prune", "", Absent, "list",
                             PruneOptions(older_than, olderThanMs[1], dryRun, excludeActive,
                                          limit, now),
                             <<>>))

\* kernel_browser.execute up to its first await
KernelBrowser ==
    /\ KernelHandled
    /\ \/ /\ markBusy("browser:create")
          /\ Await("create", "", CallOf("tool", "create", "", Absent, "api", NoPrune, <<>>))
          /\ Ran("kernel")
       \/ /\ markBusy("browser:list")
          /\ Await("list", "", CallOf("tool", "list", "", Absent, "api", NoPrune, <<>>))
          /\ Ran("kernel")
       \/ \E op \in {"get", "delete"}, session_id \in SessionIdSamples :
              GetOrDelete("tool", op, SidOrActive(session_id), session_id)
       \/ \E params \in PruneSamples :
              Prune("tool", params.older_than,
                    IF params.dry_run = Absent THEN TRUE ELSE params.dry_run[1],
                    IF params.exclude_active = Absent THEN TRUE ELSE params.exclude_active[1],
                    PruneLimit(params.limit))
    /\ UNCHANGED <<activeBrowserId, browsers>>
    /\ KernelFrame

\* the arguments of /kernel the model draws, and what the handler reads from
\* them: the command (tokens[0] ?? "list", lower case), the session argument
\* of get and delete, and the flags of prune (Absent for a flag that is not
\* given, "invalid" for one parseBool or parseDurationToMs rejects)
KernelArgs ==
    { [text |-> "", cmd |-> "list", sidArg |-> Absent, olderThan |-> Absent, dryRun |-> Absent],
      [text |-> "help", cmd |-> "help", sidArg |-> Absent, olderThan |-> Absent, dryRun |-> Absent],
      [text |-> "create", cmd |-> "create", sidArg |-> Absent, olderThan |-> Absent,
       dryRun |-> Absent],
      [text |-> "get mid", cmd |-> "get", sidArg |-> Present("mid"), olderThan |-> Absent,
       dryRun |-> Absent],
      [text |-> "delete active", cmd |-> "delete", sidArg |-> Present("active"),
       olderThan |-> Absent, dryRun |-> Absent],
      [text |-> "prune --older-than=30m --dry-run=false", cmd |-> "prune", sidArg |-> Absent,
       olderThan |-> Present("30m"), dryRun |-> Present("false")],
      [text |-> "prune --dry-run=maybe", cmd |-> "prune", sidArg |-> Absent,
       olderThan |-> Absent, dryRun |-> Present("maybe")] }

\* parseBool(v): Absent for null
parseBool(v) ==
    IF v = Absent THEN Absent
    ELSE IF v[1] \in {"true", "1", "yes"} THEN Present(TRUE)
    ELSE IF v[1] \in {"false", "0", "no"} THEN Present(FALSE)
    ELSE Absent

\* !sidArg || sidArg === "active" ? activeBrowserId : sidArg; undefined is ""
SidOfArg(sidArg) ==
    IF sidArg = Absent \/ sidArg = Present("active")
    THEN (IF activeBrowserId # Absent THEN activeBrowserId[1] ELSE "")
    ELSE sidArg[1]

\* the handler of /kernel up to its first await
KernelCommand ==
    /\ KernelHandled
    /\ \E args \in KernelArgs :
          CASE args.cmd = "help" -> UNCHANGED <<busyOp, calls>> /\ Ran("kernel")
            [] args.cmd = "create" ->
                 /\ Ran("kernel")
                 /\ markBusy("browser:create")
                 /\ Await("create", "", CallOf("command", "create", "", Absent, "api", NoPrune, <<>>))
            [] args.cmd \in {"get", "delete"} ->
                 GetOrDelete("command", args.cmd, SidOfArg(args.sidArg),
                             IF args.sidArg = Present("active") THEN Absent ELSE args.sidArg)
            [] args.cmd = "prune" ->
                 IF args.dryRun # Absent /\ parseBool(args.dryRun) = Absent
                 THEN UNCHANGED <<busyOp, calls>> /\ Ran("prune-rejected")
                 ELSE Prune("command",
                            IF args.olderThan = Absent THEN Present("24h") ELSE args.olderThan,
                            IF args.dryRun = Absent THEN TRUE ELSE parseBool(args.dryRun)[1],
                            TRUE, 20)
            [] OTHER ->
                 /\ Ran("kernel")
                 /\ markBusy("browser:list")
                 /\ Await("list", "", CallOf("command", "list", "", Absent, "list", NoPrune, <<>>))
    /\ UNCHANGED <<activeBrowserId, browsers>>
    /\ KernelFrame

\* the account has a session with this id
Exists(sid) == \E b \in browsers : b.session_id = sid

\* the sessions the account has without the one with this id
Deleted(sid) == {b \in browsers : b.session_id # sid}

\* if (sid === activeBrowserId) activeBrowserId = undefined
ClearIfActive(sid) ==
    activeBrowserId' = IF activeBrowserId = Present(sid) THEN Absent ELSE activeBrowserId

\* the entry the host logs for a kernel_browser result whose details hold a browser
ToolResultEntry(id) ==
    [type |-> "message", role |-> "toolResult", toolName |-> "kernel_browser",
     browser |-> id]

\* all.filter(...) of prune: not the active session when it is excluded,
\* created_at present, and the age finite and at least olderThanMs
PruneMatches(all, options) ==
    SelectSeq(all, LAMBDA b :
        /\ ~(options.excludeActive /\ activeBrowserId = Present(b.session_id))
        /\ b.created_at # Absent
        /\ GetTime(b.created_at[1]) # Absent
        /\ options.at - GetTime(b.created_at[1])[1] >= options.olderThanMs)

\* the call at position i is over
Returns(i) == calls' = RemoveAt(calls, i)

\* the call at position i goes on as call c
GoesOn(i, c) == calls' = [calls EXCEPT ![i] = c]

\* what a continuation of the kernel extension leaves alone
ReturnFrame ==
    /\ UNCHANGED <<now, ticks, events>>
    /\ UNCHANGED created
    /\ UNCHANGED <<classifierVars, trackerOnlyVars>>

\* client.browsers.create answers a call of the tool or of /kernel: the new
\* session becomes the active one
CreateReturns(i) ==
    LET c  == calls[i]
        id == NewIds[created + 1]
    IN  /\ c.op = "create" /\ c.phase = "api"
        /\ created < Len(NewIds)
        /\ created' = created + 1
        /\ browsers' = browsers \cup {Browser(id, Present(IsoString(now)))}
        /\ activeBrowserId' = Present(id)
        /\ markOk
        /\ Returns(i)
        /\ entries' = IF c.by = "tool" THEN Append(entries, ToolResultEntry(id)) ELSE entries
        /\ UNCHANGED <<now, ticks, events>>
        /\ Ran("kernel")
        /\ UNCHANGED <<classifierVars, trackerOnlyVars>>

\* client.browsers.list answers the list of the tool
ListReturns(i) ==
    LET c == calls[i]
    IN  /\ c.op = "list" /\ c.phase = "api"
        /\ markOk
        /\ Returns(i)
        /\ UNCHANGED <<activeBrowserId, browsers, entries>>
        /\ Ran("kernel")
        /\ ReturnFrame

\* client.browsers.retrieve answers a get, or throws for a session that is gone
GetReturns(i) ==
    LET c == calls[i]
    IN  /\ c.op = "get" /\ c.phase = "api"
        /\ IF Exists(c.sid)
           THEN /\ markOk
                /\ entries' = IF c.by = "tool" THEN Append(entries, ToolResultEntry(c.sid))
                               ELSE entries
           ELSE /\ markError
                /\ UNCHANGED entries
        /\ Returns(i)
        /\ UNCHANGED <<activeBrowserId, browsers>>
        /\ Ran("kernel")
        /\ ReturnFrame

\* client.browsers.deleteByID answers a delete, or throws for a session that
\* is gone: the active session is forgotten when it is the one deleted
DeleteReturns(i) ==
    LET c == calls[i]
    IN  /\ c.op = "delete" /\ c.phase = "api"
        /\ IF Exists(c.sid)
           THEN /\ browsers' = Deleted(c.sid)
                /\ ClearIfActive(c.sid)
                /\ markOk
           ELSE /\ markError
                /\ UNCHANGED <<activeBrowserId, browsers>>
        /\ Returns(i)
        /\ UNCHANGED entries
        /\ Ran("kernel")
        /\ ReturnFrame

\* the API answers kernel_playwright, kernel_screenshot or kernel_computer,
\* or throws for a session that is gone
SessionToolReturns(i) ==
    LET c == calls[i]
    IN  /\ c.op \in {"kernel_playwright", "kernel_screenshot", "kernel_computer"}
        /\ IF Exists(c.sid) THEN markOk ELSE markError
        /\ Returns(i)
        /\ UNCHANGED <<activeBrowserId, browsers, entries>>
        /\ Ran("kernel")
        /\ ReturnFrame

\* the continuation of prune if it deleted in a dry run too
PruneListed_DryRunIgnored(i) ==
    LET c          == calls[i]
        options    == c.prune[1]
        matches    == PruneMatches(ListBrowsers(browsers), options)
        candidates == Slice(matches, options.limit)
    IN  /\ c.op = "prune" /\ c.phase = "list"
        /\ IF candidates = <<>>
           THEN /\ markOk
                /\ Returns(i)
           ELSE /\ GoesOn(i, [c EXCEPT !.phase = "delete", !.sid = candidates[1].session_id,
                                       !.queue = candidates])
                /\ UNCHANGED busyOp
        /\ Ran(IF options.dryRun THEN "prune-dry-run" ELSE "kernel")
        /\ UNCHANGED <<activeBrowserId, browsers, entries>>
        /\ ReturnFrame

\* client.browsers.list answers a prune: the filter, the limit, and for a
\* run that is not dry the first deleteByID; queue holds the candidates from
\* the one whose deleteByID is awaited on
PruneListed(i) ==
    LET c          == calls[i]
        options    == c.prune[1]
        matches    == PruneMatches(ListBrowsers(browsers), options)
        candidates == Slice(matches, options.limit)
    IN  /\ c.op = "prune" /\ c.phase = "list"
        /\ IF options.dryRun \/ candidates = <<>>
           THEN /\ markOk
                /\ Returns(i)
           ELSE /\ GoesOn(i, [c EXCEPT !.phase = "delete", !.sid = candidates[1].session_id,
                                       !.queue = candidates])
                /\ UNCHANGED busyOp
        /\ Ran(IF options.dryRun THEN "prune-dry-run" ELSE "kernel")
        /\ UNCHANGED <<activeBrowserId, browsers, entries>>
        /\ ReturnFrame

\* client.browsers.deleteByID answers inside the loop of prune: the active
\* session is forgotten when it is the one deleted, then the next candidate
\* or the end; a throw ends the prune
PruneDeleted(i) ==
    LET c == calls[i]
    IN  /\ c.op = "prune" /\ c.phase = "delete"
        /\ IF Exists(c.sid)
           THEN /\ browsers' = Deleted(c.sid)
                /\ ClearIfActive(c.sid)
                /\ IF Tail(c.queue) = <<>>
                   THEN /\ markOk
                        /\ Returns(i)
                   ELSE /\ GoesOn(i, [c EXCEPT !.sid = c.queue[2].session_id,
                                               !.queue = Tail(c.queue)])
                        /\ UNCHANGED busyOp
           ELSE /\ markError
                /\ Returns(i)
                /\ UNCHANGED <<activeBrowserId, browsers>>
        /\ UNCHANGED entries
        /\ Ran("kernel")
        /\ ReturnFrame

\* client.browsers.list answers /kernel without a command: the question
\* whether to create one when there is none, else the selector
CommandListed(i) ==
    LET c   == calls[i]
        all == ListBrowsers(browsers)
        ids == [k \in 1..Len(all) |-> all[k].session_id]
    IN  /\ c.op = "list" /\ c.phase = "list"
        /\ GoesOn(i, [c EXCEPT !.phase = IF ids = <<>> THEN "confirm" ELSE "select",
                                !.queue = ids])
        /\ UNCHANGED <<activeBrowserId, busyOp, browsers, entries>>
        /\ Ran("kernel")
        /\ ReturnFrame

\* ctx.ui.select answers the question: create a session, or cancel
Confirmed(i) ==
    LET c == calls[i]
    IN  /\ c.op = "list" /\ c.phase = "confirm"
        /\ \/ /\ markBusy("browser:create")
              /\ GoesOn(i, [c EXCEPT !.op = "create", !.phase = "api"])
           \/ /\ markOk
              /\ Returns(i)
        /\ UNCHANGED <<activeBrowserId, browsers, entries>>
        /\ Ran("kernel")
        /\ ReturnFrame

\* selectedLabel.match(/[0-9a-f]{8}-...-[0-9a-f]{12}/i)?.[0]: the ids of the
\* model stand for UUIDs, but for "odd", which stands for an id of another shape
UuidIn(id) == IF id = "odd" THEN Absent ELSE Present(id)

\* ctx.ui.select answers the selector: the session chosen becomes the active
\* one when its label holds a UUID, or nothing is chosen
Selected(i) ==
    LET c == calls[i]
    IN  /\ c.op = "list" /\ c.phase = "select"
        /\ \/ \E k \in 1..Len(c.queue) :
                 activeBrowserId' = IF UuidIn(c.queue[k]) = Absent THEN activeBrowserId
                                    ELSE UuidIn(c.queue[k])
           \/ UNCHANGED activeBrowserId
        /\ markOk
        /\ Returns(i)
        /\ UNCHANGED <<browsers, entries>>
        /\ Ran("kernel")
        /\ ReturnFrame

\* a continuation of a call of the kernel extension
CallReturns ==
    \E i \in 1..Len(calls) :
        \/ CreateReturns(i)
        \/ ListReturns(i)
        \/ GetReturns(i)
        \/ DeleteReturns(i)
        \/ SessionToolReturns(i)
        \/ PruneListed(i)
        \/ PruneDeleted(i)
        \/ CommandListed(i)
        \/ Confirmed(i)
        \/ Selected(i)

\* pi.on("session_shutdown"): the local state is cleared, the sessions stay
SessionShutdown ==
    /\ KernelHandled
    /\ Ran("kernel")
    /\ activeBrowserId' = Absent
    /\ busyOp' = Absent
    /\ UNCHANGED <<browsers, calls>>
    /\ KernelFrame

\* the session the last kernel_browser result of the log names, if any
LastBrowserIn(log) ==
    LET named == SelectSeq(log, LAMBDA e :
                     /\ e.type = "message"
                     /\ e.role = "toolResult"
                     /\ e.toolName = "kernel_browser")
    IN  IF named = <<>> THEN Absent ELSE Present(named[Len(named)].browser)

\* pi.on("session_start") of the kernel extension: the active session is
\* restored from the tool results of the log
KernelSessionStart ==
    /\ KernelHandled
    /\ Ran("kernel")
    /\ activeBrowserId' = IF LastBrowserIn(entries) = Absent THEN activeBrowserId
                           ELSE LastBrowserIn(entries)
    /\ UNCHANGED <<busyOp, browsers, calls>>
    /\ KernelFrame

\* pi.on("session_switch") and pi.on("turn_end") of the kernel extension:
\* the widget is drawn again
KernelRedraw ==
    /\ KernelHandled
    /\ Ran("kernel")
    /\ UNCHANGED <<activeBrowserId, busyOp, browsers, calls>>
    /\ KernelFrame

\* the number of steps the clock of the kernel extension takes
MaxKernelTicks == 1

\* the clock of the kernel extension moves on
KernelTick ==
    /\ ticks < MaxKernelTicks
    /\ ticks' = ticks + 1
    /\ now' = now + TickMs
    /\ UNCHANGED <<entries, events>>
    /\ Ran("kernel")
    /\ UNCHANGED kernelVars
    /\ UNCHANGED <<classifierVars, trackerOnlyVars>>

\* the session lists the account may hold when the extension is loaded
InitialLists == { {}, InitialBrowsers }

\* the kernel extension once it is loaded
InitKernel ==
    /\ pc = "kernel"
    /\ checks = IdleChecks /\ ciProgress = NoProgress /\ data = IdleData
    /\ record = IdleRecord /\ pr = IdleRecordIn
    /\ width = BarWidth /\ apportioned = NoSlots /\ slots = NoSlots /\ bar = <<>>
    /\ trackedPrs = <<>> /\ lastRefreshAt = 0 /\ refreshInFlight = FALSE
    /\ widget = Absent /\ refreshing = Absent /\ tracking = <<>>
    /\ now = KernelStartTime
    /\ entries = <<>>
    /\ lastOp = "init" /\ events = 0 /\ ticks = 0
    /\ activeBrowserId = Absent
    /\ busyOp = Absent
    /\ browsers \in InitialLists
    /\ calls = <<>>
    /\ created = 0

NextKernel ==
    \/ KernelBrowser
    \/ KernelPlaywright
    \/ KernelScreenshot
    \/ KernelComputer
    \/ KernelCommand
    \/ CallReturns
    \/ SessionShutdown
    \/ KernelSessionStart
    \/ KernelRedraw
    \/ KernelTick

SpecKernel == InitKernel /\ [][NextKernel]_vars

----------------------------------------------------------------------------
(* Claims about the bar allocation, checked under SpecBar *)

\* the tally ciBadge works from
Tally == ciProgressFromRecord(pr)

Rendered == pc = "rendered"

NonzeroCategories(progress) ==
    Cardinality({k \in {"passed", "failed", "pending"} : progress[k] > 0})

\* every category with a nonzero count holds at least one slot
Visible(progress, s) ==
    /\ progress.passed > 0 => s.passSlots >= 1
    /\ progress.failed > 0 => s.failSlots >= 1
    /\ progress.pending > 0 => s.pendingSlots >= 1

GlyphCount(glyphs, g) == Cardinality({i \in DOMAIN glyphs : glyphs[i] = g})

\* Largest-remainder apportionment in exact integer arithmetic, ties in the
\* order pass, fail, pending: floor(count * w / total) each, and one more
\* slot for the categories with the largest remainders (count * w) % total.
LargestRemainder(progress, w) ==
    LET count  == <<progress.passed, progress.failed, progress.pending>>
        floor(i) == (count[i] * w) \div progress.total
        rem(i)   == (count[i] * w) % progress.total
        left   == w - (floor(1) + floor(2) + floor(3))
        rank(i) == Cardinality({j \in 1..3 : rem(j) > rem(i) \/ (rem(j) = rem(i) /\ j < i)})
        slot(i) == floor(i) + (IF rank(i) < left THEN 1 ELSE 0)
    IN  SlotsOf(slot(1), slot(2), slot(3))

\* s is a largest-remainder apportionment for some order among the
\* categories whose exact remainders are equal
IsLargestRemainder(progress, w, s) ==
    LET count  == <<progress.passed, progress.failed, progress.pending>>
        got    == <<s.passSlots, s.failSlots, s.pendingSlots>>
        floor(i) == (count[i] * w) \div progress.total
        rem(i)   == (count[i] * w) % progress.total
    IN  /\ SlotSum(s) = w
        /\ \A i \in 1..3 : got[i] \in {floor(i), floor(i) + 1}
        /\ \A i, j \in 1..3 :
              (got[i] = floor(i) + 1 /\ got[j] = floor(j)) => rem(i) >= rem(j)

\* C1: for every tally with total > 0 the slots of the bar sum to the bar
\* width, for every width >= 1, and the bar holds exactly width glyphs.
Thm_C1_SlotsSumToWidth ==
    (Rendered /\ Tally.total > 0) =>
        /\ SlotSum(slots) = width
        /\ Len(bar) = width

\* C1 witness: a bar of the source's width 7 with all three categories
\* present, whose apportioned slots the fix-up had to change.
Wit_C1_SlotsSumToWidth ==
    /\ Rendered
    /\ width = BarWidth
    /\ NonzeroCategories(Tally) = 3
    /\ slots # apportioned
    /\ SlotSum(slots) = BarWidth

\* C2: when the width is at least the number of categories with a nonzero
\* count, every category with a nonzero count holds at least one slot.
Thm_C2_NonzeroVisible ==
    (Rendered /\ Tally.total > 0 /\ width >= NonzeroCategories(Tally)) =>
        Visible(Tally, slots)

\* C2 witness: width 7, failures rounded down to no slot by the
\* apportionment and given one by the fix-up.
Wit_C2_NonzeroVisible ==
    /\ Rendered
    /\ width = BarWidth
    /\ Tally.failed > 0
    /\ apportioned.failSlots = 0
    /\ slots.failSlots = 1

Thm_C8_NoChecksNoSlots ==
    (Rendered /\ Tally.total = 0) =>
        /\ slots = NoSlots
        /\ apportioned = NoSlots
        /\ \A g \in {"=", "!", "~"} : GlyphCount(bar, g) = 0

\* C8 witness: a record without ciProgress and with ci unknown, rendered
\* at a width other than 7.
Wit_C8_NoChecksNoSlots ==
    /\ Rendered
    /\ Tally.total = 0
    /\ pr.ciProgress = Absent
    /\ pr.ci = "unknown"
    /\ width # BarWidth
    /\ bar = Repeat("-", BarWidth)

\* C9 as stated: at the source's width 7, when the largest-remainder
\* apportionment with ties in the order pass, fail, pending gives every
\* nonzero category a slot, the final allocation equals it.
Claim_C9_TiesInCategoryOrder ==
    (Rendered /\ width = BarWidth /\ Tally.total > 0
        /\ Visible(Tally, LargestRemainder(Tally, width))) =>
        slots = LargestRemainder(Tally, width)

\* C9 amended: the slots after the leftover loop are a largest-remainder
\* apportionment (categories with equal exact remainders in the order of
\* their remainders as rounded doubles); when it gives every nonzero category
\* a slot the final allocation equals it, and it is the apportionment with
\* ties in the order pass, fail, pending when no two categories of different
\* counts have equal remainders; passed 9, failed 1 gives 6/1/0, passed 2,
\* failed 1 gives 5/2/0, passed 5, pending 2 gives 5/0/2 at width 7.
Thm_C9_ApportionmentUnchanged ==
    (Rendered /\ Tally.total > 0) =>
        /\ IsLargestRemainder(Tally, width, apportioned)
        /\ Visible(Tally, apportioned) => slots = apportioned
        /\ (\A a, b \in {Tally.passed, Tally.failed, Tally.pending} :
               a # b => (a * width) % Tally.total # (b * width) % Tally.total)
              => apportioned = LargestRemainder(Tally, width)
        /\ (width = BarWidth /\ Tally.passed = 9 /\ Tally.failed = 1 /\ Tally.pending = 0)
              => slots = SlotsOf(6, 1, 0)
        /\ (width = BarWidth /\ Tally.passed = 2 /\ Tally.failed = 1 /\ Tally.pending = 0)
              => slots = SlotsOf(5, 2, 0)
        /\ (width = BarWidth /\ Tally.passed = 5 /\ Tally.failed = 0 /\ Tally.pending = 2)
              => slots = SlotsOf(5, 0, 2)

\* C9 witness: width 7, an apportionment that shows every nonzero category
\* and is kept by the fix-up, with the tie broken otherwise than in the
\* order pass, fail, pending.
Wit_C9_ApportionmentUnchanged ==
    /\ Rendered
    /\ width = BarWidth
    /\ Tally.total > 0
    /\ Visible(Tally, apportioned)
    /\ slots = apportioned
    /\ apportioned # LargestRemainder(Tally, width)

----------------------------------------------------------------------------
(* Claims about ciProgressFromChecks and ciProgressFromRecord, checked      *)
(* under SpecChecks                                                         *)

Classified == pc = "classified"

\* the checks handed to ciProgressFromChecks, <<>> when there are none
CheckList == IF checks = Absent THEN <<>> ELSE checks[1]

\* the status the counts of a tally determine
DerivedFrom(t) ==
    IF t.failed > 0 THEN "fail"
    ELSE IF t.pending > 0 THEN "pending"
    ELSE IF t.total > 0 THEN "pass"
    ELSE "none"

\* the table of C6, on status and conclusion normalised to upper case
TableBucket(check) ==
    LET S == toUpperCase(OrEmpty(check.status))
        C == toUpperCase(OrEmpty(check.conclusion))
        completed == S = "COMPLETED" \/ (S = "" /\ C # "")
    IN  CASE ~completed -> "pending"
          [] completed /\ C = "" -> "pending"
          [] completed /\ C \in {"FAILURE", "TIMED_OUT", "CANCELLED", "ACTION_REQUIRED",
                                  "STARTUP_FAILURE", "ERROR"} -> "failed"
          [] completed /\ C \in {"SUCCESS", "NEUTRAL", "SKIPPED"} -> "passed"
          [] OTHER -> "failed"

\* the rearrangements of a sequence
Rearrangements(q) ==
    LET n == Len(q)
        bijections == {f \in [1..n -> 1..n] : \A i, j \in 1..n : f[i] = f[j] => i = j}
    IN  {[i \in 1..n |-> q[f[i]]] : f \in bijections}

\* C4: ciProgressFromChecks counts every check in exactly one of passed,
\* failed and pending: total is their sum and the number of checks.
Thm_C4_EveryCheckCounted ==
    Classified =>
        /\ ciProgress.total = ciProgress.passed + ciProgress.failed + ciProgress.pending
        /\ ciProgress.total = Len(CheckList)

\* C4 witness: two checks, one of them completed without a conclusion.
Wit_C4_EveryCheckCounted ==
    /\ Classified
    /\ Len(CheckList) = 2
    /\ CheckList[1] = [status |-> Present("COMPLETED"), conclusion |-> Absent]
    /\ CheckList[2] = [status |-> Present("COMPLETED"), conclusion |-> Present("SUCCESS")]
    /\ ciProgress.total = 2

\* C5 as stated: every CiProgress returned by ciProgressFromChecks, and every
\* fallback of ciProgressFromRecord for a record without ciProgress, has the
\* status its counts determine.
Claim_C5_StatusDerived ==
    (pc \in {"classified", "fromRecord"}) => ciProgress.status = DerivedFrom(ciProgress)

\* C5 amended: the status is the one the counts determine, except for the
\* fallback of a record without ciProgress whose ci is unknown: that one has
\* status unknown and all counts 0.
Thm_C5_StatusDerivedUnlessUnknown ==
    /\ Classified => ciProgress.status = DerivedFrom(ciProgress)
    /\ (pc = "fromRecord" /\ pr.ci # "unknown") =>
            ciProgress.status = DerivedFrom(ciProgress)
    /\ (pc = "fromRecord" /\ pr.ci = "unknown") =>
            ciProgress = CiProgressOf(0, 0, 0, 0, "unknown")

\* C5 witness: a failed and a pending check, classified as fail.
Wit_C5_StatusDerivedUnlessUnknown ==
    /\ Classified
    /\ ciProgress.failed = 1
    /\ ciProgress.pending = 1
    /\ ciProgress.status = "fail"

\* C6: the counts are those of the table: a check is completed iff its status
\* is COMPLETED, or its status is empty and its conclusion is not; a check not
\* completed, or completed without conclusion, is pending; the six failure
\* conclusions are failed, SUCCESS, NEUTRAL and SKIPPED are passed, any other
\* conclusion is failed.
Thm_C6_ClassificationTable ==
    Classified =>
        \A b \in {"passed", "failed", "pending"} :
            ciProgress[b] =
                Cardinality({i \in 1..Len(CheckList) : TableBucket(CheckList[i]) = b})

\* C6 witness: a check with no status and a lower-case conclusion counted
\* as passed, and a completed check with an unlisted conclusion as failed.
Wit_C6_ClassificationTable ==
    /\ Classified
    /\ Len(CheckList) = 2
    /\ CheckList[1] = [status |-> Absent, conclusion |-> Present("success")]
    /\ CheckList[2] = [status |-> Present("COMPLETED"), conclusion |-> Present("STALE")]
    /\ ciProgress = CiProgressOf(2, 1, 1, 0, "fail")

\* C7: every rearrangement of the checks gives the same CiProgress.
Thm_C7_OrderIndependent ==
    Classified =>
        \A q \in Rearrangements(CheckList) : ciProgressFromChecks(Present(q)) = ciProgress

\* C7 witness: two checks of different buckets, the failed one first.
Wit_C7_OrderIndependent ==
    /\ Classified
    /\ Len(CheckList) = 2
    /\ TableBucket(CheckList[1]) = "failed"
    /\ TableBucket(CheckList[2]) = "passed"
    /\ ciProgress = CiProgressOf(2, 1, 1, 0, "fail")

----------------------------------------------------------------------------
(* Claims about normalizePr, checked under SpecPr *)

Normalized == pc = "normalized"

\* C10 as stated: a merged record is approved; otherwise the decision
\* APPROVED gives approved, CHANGES_REQUESTED changes, REVIEW_REQUIRED
\* pending, and any other decision unknown.
Claim_C10_ReviewOfMerged ==
    Normalized =>
        record.review =
            IF record.merge = "merged" THEN "approved"
            ELSE CASE data.reviewDecision = Present("APPROVED") -> "approved"
                   [] data.reviewDecision = Present("CHANGES_REQUESTED") -> "changes"
                   [] data.reviewDecision = Present("REVIEW_REQUIRED") -> "pending"
                   [] OTHER -> "unknown"

\* C10 amended: the same, with the decision compared in upper case, so that
\* approved in lower case gives approved as well.
Thm_C10_ReviewOfMerged ==
    Normalized =>
        /\ record.merge = "merged" => record.review = "approved"
        /\ record.merge # "merged" =>
              record.review =
                  CASE toUpperCase(OrEmpty(data.reviewDecision)) = "APPROVED" -> "approved"
                    [] toUpperCase(OrEmpty(data.reviewDecision)) = "CHANGES_REQUESTED" -> "changes"
                    [] toUpperCase(OrEmpty(data.reviewDecision)) = "REVIEW_REQUIRED" -> "pending"
                    [] OTHER -> "unknown"

\* C10 witness: a merged pull request whose decision is CHANGES_REQUESTED.
Wit_C10_ReviewOfMerged ==
    /\ Normalized
    /\ record.merge = "merged"
    /\ data.reviewDecision = Present("CHANGES_REQUESTED")
    /\ record.review = "approved"

\* C11 as stated: a present mergedAt or the state MERGED gives merged,
\* whatever isDraft and the state are; otherwise isDraft gives draft;
\* otherwise OPEN gives open, CLOSED closed, and any other state unknown.
Claim_C11_MergePriority ==
    Normalized =>
        record.merge =
            IF data.mergedAt # Absent \/ data.state = Present("MERGED") THEN "merged"
            ELSE IF data.isDraft THEN "draft"
            ELSE CASE data.state = Present("OPEN") -> "open"
                   [] data.state = Present("CLOSED") -> "closed"
                   [] OTHER -> "unknown"

\* C11 amended: the same strict priority, with a non-empty mergedAt in
\* place of a present one and the state compared in upper case.
Thm_C11_MergePriority ==
    Normalized =>
        LET state == toUpperCase(OrEmpty(data.state))
            stamped == data.mergedAt # Absent /\ data.mergedAt # Present("")
        IN  /\ (stamped \/ state = "MERGED") => record.merge = "merged"
            /\ (~stamped /\ state # "MERGED" /\ data.isDraft) => record.merge = "draft"
            /\ (~stamped /\ state # "MERGED" /\ ~data.isDraft) =>
                  record.merge = CASE state = "OPEN" -> "open"
                                   [] state = "CLOSED" -> "closed"
                                   [] OTHER -> "unknown"

\* C11 witness: a draft, open pull request with a merged timestamp is merged.
Wit_C11_MergePriority ==
    /\ Normalized
    /\ data.mergedAt = Present("2024-01-01T00:00:00Z")
    /\ data.isDraft
    /\ data.state = Present("OPEN")
    /\ record.merge = "merged"

----------------------------------------------------------------------------
(* Claims about the tracked list, checked under SpecTracker and SpecCapacity *)

\* the step removes pull request num from the tracked list
Removes(num) == num \in Numbers(trackedPrs) /\ num \notin Numbers(trackedPrs')

SessionEvents == {"session_start", "session_switch", "session_fork", "session_tree"}

\* C12: in every reachable state of the tracker, no two records of the
\* tracked list have the same pull request number.
Thm_C12_UniqueNumbers ==
    \A i, j \in 1..Len(trackedPrs) :
        i # j => trackedPrs[i].number # trackedPrs[j].number

\* C12 witness: pull requests 1 and 2 were restored and the pull request of
\* the branch, 2, was tracked again: it is first, and listed once.
Wit_C12_UniqueNumbers ==
    /\ lastOp = "tracked"
    /\ Len(trackedPrs) = 2
    /\ trackedPrs[1].number = BranchPr
    /\ trackedPrs[1].ci = "pass"
    /\ trackedPrs[2].number = 1

\* C13: the tracked list never holds more than MAX_TRACKED_PRS records.
Thm_C13_AtMostMaxTracked == Len(trackedPrs) <= MAX_TRACKED_PRS

\* C13 witness: a thirteenth pull request was tracked in a session that
\* tracked twelve; the list still holds twelve.
Wit_C13_AtMostMaxTracked ==
    /\ lastOp = "tracked"
    /\ Len(entries) = 2
    /\ Len(entries[1].data.prs) = MAX_TRACKED_PRS
    /\ trackedPrs[1].number = 13
    /\ Len(trackedPrs) = MAX_TRACKED_PRS

\* C14: tracking a pull request puts its record first and keeps the other
\* records in their previous relative order; tracking a tracked number
\* leaves the number of tracked pull requests unchanged; tracking a new
\* number when MAX_TRACKED_PRS are tracked drops exactly the last record.
Thm_C14_TrackPutsFirst ==
    [][ lastOp' = "tracked" =>
          LET num    == trackedPrs'[1].number
              others == WithoutNumber(trackedPrs, num)
          IN  /\ Len(trackedPrs') >= 1
              /\ Len(trackedPrs') - 1 <= Len(others)
              /\ SubSeq(trackedPrs', 2, Len(trackedPrs'))
                    = SubSeq(others, 1, Len(trackedPrs') - 1)
              /\ num \in Numbers(trackedPrs) => Len(trackedPrs') = Len(trackedPrs)
              /\ (num \notin Numbers(trackedPrs) /\ Len(trackedPrs) < MAX_TRACKED_PRS)
                    => Len(trackedPrs') = Len(trackedPrs) + 1
              /\ (num \notin Numbers(trackedPrs) /\ Len(trackedPrs) = MAX_TRACKED_PRS)
                    => /\ Len(trackedPrs') = MAX_TRACKED_PRS
                       /\ Numbers(trackedPrs) \ Numbers(trackedPrs')
                             = {trackedPrs[MAX_TRACKED_PRS].number} ]_vars

\* C14 witness: with twelve tracked, pull request 2 was tracked again and
\* pull request 13 was tracked: 13 and 2 lead, 12 was dropped.
Wit_C14_TrackPutsFirst ==
    /\ lastOp = "tracked"
    /\ Len(trackedPrs) = MAX_TRACKED_PRS
    /\ trackedPrs[1].number = 13
    /\ trackedPrs[2].number = BranchPr
    /\ trackedPrs[3].number = 1
    /\ MAX_TRACKED_PRS \notin Numbers(trackedPrs)

\* the pull requests no stored session holds: such a number is in the
\* tracked list only once /pr-track or a gh pr create result has tracked it
NewNumbers == {num \in RemoteNumbers : \A log \in StoredLogs : num \notin Numbers(restoreState(log))}

\* C15 as stated: a pull request tracked by /pr-track or by the detection
\* of gh pr create leaves the tracked list only when the capacity evicts
\* it, /pr-untrack removes it or a session restore replaces the list.
Claim_C15_TrackedStays ==
    [][ \A num \in Numbers(trackedPrs) \cap NewNumbers :
          Removes(num) =>
              \/ lastOp' = "pr-untrack"
              \/ lastOp' \in SessionEvents
              \/ /\ lastOp' = "tracked"
                 /\ Len(trackedPrs) = MAX_TRACKED_PRS
                 /\ num = trackedPrs[MAX_TRACKED_PRS].number ]_vars

\* C16 as stated: a record refreshAll keeps for a pull request whose fetch
\* failed has the CI status unknown.
Claim_C16_FailedFetchUnknown ==
    \A i \in 1..Len(trackedPrs) :
        "error" \in DOMAIN trackedPrs[i] => trackedPrs[i].ci = "unknown"

\* the handlers that refresh quietly
QuietHandlers == SessionEvents \cup {"turn_end", "tool_result"}

\* the previous refresh completed less than REFRESH_COOLDOWN_MS ago
CoolingDown == lastRefreshAt # 0 /\ now - lastRefreshAt < REFRESH_COOLDOWN_MS

\* C17: during the cooldown a quiet refresh (from turn_end, a session event
\* or a gh pr tool result) starts no fetch of a refresh and changes nothing
\* of the refresh state, and turn_end changes no state at all; /pr-refresh
\* starts a refresh whenever pull requests are tracked and none is running,
\* cooldown or not.
Thm_C17_QuietRefreshCoolsDown ==
    [][ /\ (CoolingDown /\ lastOp' \in QuietHandlers) =>
              UNCHANGED <<refreshing, refreshInFlight, lastRefreshAt>>
        /\ (CoolingDown /\ lastOp' = "turn_end") =>
              UNCHANGED <<trackedPrs, entries, widget, tracking>>
        /\ (lastOp' = "pr-refresh" /\ ~refreshInFlight /\ Len(trackedPrs) # 0) =>
              /\ refreshInFlight'
              /\ refreshing' # Absent ]_vars

\* C17 witness: turn_end arrived half a cooldown after a refresh of tracked
\* pull requests completed, and no refresh runs.
Wit_C17_QuietRefreshCoolsDown ==
    /\ lastOp = "turn_end"
    /\ Len(trackedPrs) # 0
    /\ now - lastRefreshAt = TickMs
    /\ ~refreshInFlight
    /\ refreshing = Absent

\* C18: during a refresh, at no moment are more than REFRESH_CONCURRENCY
\* fetches of the refresh in flight.
Thm_C18_BoundedFetches ==
    refreshing # Absent =>
        /\ Cardinality(refreshing[1].inFlight) <= REFRESH_CONCURRENCY
        /\ refreshing[1].inFlight \subseteq 1..Len(refreshing[1].items)

\* C18 witness: five pull requests are refreshed; the second fetch returned
\* first, the fifth took its place, and four fetches are in flight.
Wit_C18_BoundedFetches ==
    /\ refreshing # Absent
    /\ Len(refreshing[1].items) = REFRESH_CONCURRENCY + 1
    /\ refreshing[1].inFlight = {1, 3, 4, 5}
    /\ refreshing[1].results[2] # Absent

----------------------------------------------------------------------------
(* Claims about the kernel extension, checked under SpecKernel *)

\* the operations that address one session
SessionOps == {"kernel_playwright", "kernel_screenshot", "kernel_computer", "get", "delete"}

\* the call at position i returns in this step
Completes(i) == i \in 1..Len(calls) /\ calls' = RemoveAt(calls, i)

\* a call is started in this step
Starts == Len(calls') = Len(calls) + 1 /\ SubSeq(calls', 1, Len(calls)) = calls

\* the call started in this step
Started == calls'[Len(calls')]

\* after a create of the tool succeeds the created session is the active one
CreateActivates ==
    \A i \in 1..Len(calls) :
        (Completes(i) /\ calls[i].op = "create" /\ calls[i].by = "tool" /\ browsers' # browsers)
            => \E b \in browsers' \ browsers : activeBrowserId' = Present(b.session_id)

\* a call that omits session_id is sent to the active session, one that
\* names a session is sent to that session
SentToSession ==
    (Starts /\ Started.op \in SessionOps)
        => IF Started.session_id = Absent
           THEN activeBrowserId = Present(Started.sid)
           ELSE Started.sid = Started.session_id[1]

\* the call at position i names the active session and deletes it
DeletesActive(i) ==
    /\ calls[i].op = "delete"
    /\ activeBrowserId = Present(calls[i].sid)
    /\ activeBrowserId' = Absent

\* C19 as stated: after kernel_browser create succeeds the created session
\* is the active browser, a later call that omits session_id is sent to the
\* active session, and a call with an explicit session_id goes to that
\* session and never changes which browser is active.
Claim_C19_ActiveSession ==
    [][ /\ CreateActivates
        /\ SentToSession
        /\ \A i \in 1..Len(calls) :
               (Completes(i) /\ calls[i].op \in SessionOps /\ calls[i].session_id # Absent)
                   => activeBrowserId' = activeBrowserId ]_vars

\* C19 amended: after kernel_browser create succeeds the created session is
\* the active browser, a later call that omits session_id is sent to the
\* active session, and a call with an explicit session_id goes to that
\* session and changes which browser is active in one case only: a delete
\* that names the active session leaves no browser active.
Thm_C19_ActiveSession ==
    [][ /\ CreateActivates
        /\ SentToSession
        /\ \A i \in 1..Len(calls) :
               (Completes(i) /\ calls[i].op \in SessionOps /\ calls[i].session_id # Absent)
                   => (activeBrowserId' = activeBrowserId \/ DeletesActive(i)) ]_vars

\* C19 witness: a create has made "new-1" the active session, and a
\* kernel_playwright call that omits session_id is in flight to it
Wit_C19_ActiveSession ==
    /\ activeBrowserId = Present("new-1")
    /\ \E i \in 1..Len(calls) :
          /\ calls[i].op = "kernel_playwright"
          /\ calls[i].session_id = Absent
          /\ calls[i].sid = "new-1"

\* the duration an older_than of the samples stands for, in milliseconds
DurationMs(older_than) ==
    CASE older_than = Absent          -> 86400000
      [] older_than = Present("30m")  -> 1800000
      [] older_than = Present(" 1D ") -> 86400000
      [] older_than = Present("24h")  -> 86400000
      [] OTHER                        -> 0

\* the prunes whose deleteByID is awaited
Pruning == {i \in 1..Len(calls) : calls[i].op = "prune" /\ calls[i].phase = "delete"}

\* C20: a non-dry-run prune asks the API to delete only a session that has
\* a created_at that is a date and whose age, the prune's Date.now() minus
\* created_at, is at least the older_than duration (24h when omitted).
Thm_C20_PruneOnlyOld ==
    \A i \in Pruning :
        LET b       == Head(calls[i].queue)
            options == calls[i].prune[1]
        IN  /\ ~options.dryRun
            /\ b.session_id = calls[i].sid
            /\ DurationMs(options.older_than) > 0
            /\ b.created_at # Absent
            /\ GetTime(b.created_at[1]) # Absent
            /\ options.at - GetTime(b.created_at[1])[1] >= DurationMs(options.older_than)

\* C20 witness: a prune with older_than 30m and dry_run false deletes "mid",
\* thirty minutes old by then, while the session without created_at stays
Wit_C20_PruneOnlyOld ==
    /\ Browser("bare", Absent) \in browsers
    /\ \E i \in Pruning :
          /\ calls[i].sid = "mid"
          /\ calls[i].prune[1].older_than = Present("30m")

\* the dry-run prunes in flight after the step
DryRunsAfter ==
    {i \in 1..Len(calls') : calls'[i].op = "prune" /\ calls'[i].prune[1].dryRun}

\* C21: a prune with dry_run omitted or true, by the tool or by /kernel
\* prune, never awaits a deleteByID, and the step in which it reports leaves
\* the sessions of the account and the active browser as they were; so does
\* the step of a prune whose older_than or dry-run flag is rejected.
Thm_C21_DryRunDeletesNothing ==
    [][ /\ \A i \in DryRunsAfter : calls'[i].phase = "list"
        /\ lastOp' = "prune-dry-run"
              => /\ browsers' = browsers
                 /\ activeBrowserId' = activeBrowserId
                 /\ \E i \in 1..Len(calls) : calls[i].prune # NoPrune /\ Completes(i)
        /\ lastOp' = "prune-rejected"
              => /\ browsers' = browsers
                 /\ activeBrowserId' = activeBrowserId
                 /\ calls' = calls ]_vars

\* C21 witness: a dry run has just reported while the session "old", a day
\* old and not the active one, is still there
Wit_C21_DryRunDeletesNothing ==
    /\ lastOp = "prune-dry-run"
    /\ activeBrowserId # Present("old")
    /\ \E b \in browsers : b.session_id = "old"

\* the tool calls in flight after the step
ToolCallsAfter == {i \in 1..Len(calls') : calls'[i].by = "tool"}

\* C22 as stated: while a kernel tool operation is in flight busyOp is set,
\* and when tool calls overlap busyOp is not cleared until every one of them
\* has completed: a step that starts or completes a call and leaves a tool
\* call in flight leaves busyOp set.
Claim_C22_BusyWhileInFlight ==
    [][ ((Starts \/ \E i \in 1..Len(calls) : Completes(i)) /\ ToolCallsAfter # {})
            => busyOp' # Absent ]_vars

----------------------------------------------------------------------------
(* The borrow of the visibility fix-up, checked under SpecBar *)

\* the slots and the count of a category
SlotsIn(s, key) ==
    CASE key = "pass" -> s.passSlots
      [] key = "fail" -> s.failSlots
      [] OTHER        -> s.pendingSlots

CountIn(progress, key) ==
    CASE key = "pass" -> progress.passed
      [] key = "fail" -> progress.failed
      [] OTHER        -> progress.pending

Categories == {"pass", "fail", "pending"}

\* the slots before the borrow for target, in the order fail, pending, pass
BeforeBorrow(target, progress, s) ==
    CASE target = "fail"    -> s
      [] target = "pending" -> borrowSlot("fail", progress, s)
      [] OTHER              -> borrowSlot("pending", progress,
                                          borrowSlot("fail", progress, s))

\* the borrow for target takes a slot only from a category that holds more
\* than one, and does nothing when there is none
BorrowsFromSurplus(target, progress, s) ==
    LET before == BeforeBorrow(target, progress, s)
        after  == borrowSlot(target, progress, before)
    IN  /\ \A key \in Categories :
              SlotsIn(after, key) < SlotsIn(before, key) => SlotsIn(before, key) > 1
        /\ (\A key \in Categories \ {target} : SlotsIn(before, key) <= 1) => after = before
        /\ \A key \in Categories :
              ~(CountIn(progress, key) > 0 /\ SlotsIn(before, key) = 1 /\ SlotsIn(after, key) = 0)

----------------------------------------------------------------------------
(* Untracking and the persisted list, checked under SpecTracker *)

\* after the step the pull request is in the tracked list or in the widget,
\* or the step persists a state that holds it
ShownAfter(num) ==
    \/ num \in Numbers(trackedPrs')
    \/ num \in Numbers(widget')
    \/ entries' # entries /\ num \in Numbers(restoreState(entries'))

\* C24 as stated: after /pr-untrack a pull request that is not in the
\* tracked list stays out of the list, of the widget and of the persisted
\* state until it is tracked again (or a session is restored), also when
\* the next step completes a refresh that started before the untrack.
Claim_C24_UntrackedStaysOut ==
    [][ \A num \in RemoteNumbers :
          (lastOp = "pr-untrack" /\ num \notin Numbers(trackedPrs) /\ ShownAfter(num))
              => (lastOp' = "tracked" \/ lastOp' \in SessionEvents) ]_vars

\* the positions of the pr-tracker-state entries of a log
StateEntries(log) ==
    {i \in 1..Len(log) : log[i].type = "custom" /\ log[i].customType = STATE_ENTRY}

\* the list of the most recent pr-tracker-state entry, empty without one
LastPersisted(log) ==
    IF StateEntries(log) = {} THEN <<>>
    ELSE log[CHOOSE i \in StateEntries(log) : \A j \in StateEntries(log) : j <= i].data.prs

\* C25: every step that changes the tracked list and is no session restore
\* (a track, an auto-track, a refresh, an untrack of one or of all) appends
\* the complete new list to the session log; restoreState returns the list
\* of the most recent pr-tracker-state entry, the empty list without one;
\* and restoring from the log yields exactly the tracked list after every
\* session event, and after every step taken where it did.
Thm_C25_LogHoldsTrackedList ==
    [][ /\ (trackedPrs' # trackedPrs /\ lastOp' \notin SessionEvents)
              => entries' = Append(entries, StateEntry(trackedPrs'))
        /\ restoreState(entries') = LastPersisted(entries')
        /\ (lastOp' \in SessionEvents \/ restoreState(entries) = trackedPrs)
              => restoreState(entries') = trackedPrs' ]_vars

\* C25 witness: /pr-untrack all has emptied a list that was persisted with
\* pull requests in it; the log ends with the empty list
Wit_C25_LogHoldsTrackedList ==
    /\ lastOp = "pr-untrack"
    /\ trackedPrs = <<>>
    /\ Len(entries) >= 2
    /\ entries[Len(entries)] = StateEntry(<<>>)
    /\ \E i \in StateEntries(entries) : entries[i].data.prs # <<>>

====
